---- MODULE Spec2Model ----
(***************************************************************************)
(* Distinct heavy-hitter sketches of DataDog/ssss-paper-code: HyperLogLog, *)
(* Count-HLL (PointwiseSketch, LabelSetCountHLL, LabelArrayCountHLL),      *)
(* SpreadSketch, Space-Saving Sets (SSS) and Sampling Space-Saving Sets    *)
(* (SSSS).  Every sketch is a value (a record); every trait method is an   *)
(* operator from the sketch before the call to the sketch after it, and    *)
(* every action applies one method to the sketch `self`; the argument of   *)
(* a merge is a sketch of the same type built apart from it.               *)
(***************************************************************************)
EXTENDS Integers, Sequences, FiniteSets, TLC

VARIABLES
    kind,          \* the sketch type under test
    self,          \* the sketch the calls are made on
    last,          \* the last call on self and how it ended
    marked,        \* history: at most one pair <<label, item>> inserted into self
    kept,          \* history: the marked label has been tracked ever since
    curLabel,      \* the nested-loop driver's label (0: no loop has started)
    cursor         \* the nested-loop driver's next item

vars == <<kind, self, last, marked, kept, curLabel, cursor>>

(***************************************************************************)
(* Bounds of the model.                                                    *)
(***************************************************************************)
\* Items are 0 .. NumItems-1, labels are 1 .. NumLabels.
NumItems == 2
NumLabels == 3
\* A hash is HashBits wide (the program's is 64 bits wide).
HashBits == 6
\* HLL, which takes items alone, is given items 0 .. NumHllItems-1.
NumHllItems == 6
\* usize has UsizeBits bits.
UsizeBits == 8
\* The constructors of configs are given sizes 0 .. MaxSize.
MaxSize == 40
\* An SSS counter's offset grows without limit; eviction stops above this.
MaxOffset == 4
\* The item streams of the nested-loop driver are 0 .. StreamLen-1.
StreamLen == 16
\* max_iters of argmax_cl.
MaxIters == 100
\* i32 has I32Bits bits, and u64 twice as many.
I32Bits == 4

Items == 0 .. (NumItems - 1)
HllItems == 0 .. (NumHllItems - 1)
Labels == 1 .. NumLabels
HashSpace == 2 ^ HashBits
HashMax == HashSpace - 1

Min(a, b) == IF a <= b THEN a ELSE b
Max(a, b) == IF a >= b THEN a ELSE b

RECURSIVE SumOver(_, _)
\* Sum of f[x] over the domain set D of the function f restricted to D.
SumOver(f, D) ==
    IF D = {} THEN 0
    ELSE LET x == CHOOSE y \in D : TRUE
         IN  f[x] + SumOver(f, D \ {x})

(***************************************************************************)
(* Hashing.  ahash::RandomState::with_seeds(k0, k1, k2, k3).hash_one(key)  *)
(* is a fixed function of the seed quadruple and the key.  A quadruple is  *)
(* one small number here, and the function is an affine map modulo the     *)
(* hash space: different seeds give different functions.                   *)
(***************************************************************************)
HashOne(seed, key) == ((2 * seed + 5) * key + 3 * seed + 1) % HashSpace

\* The key of a (first, second) tuple, as one number.
PairKey(a, b) == 7 * a + 3 * b + 2

RECURSIVE TrailingZerosFrom(_, _)
TrailingZerosFrom(h, n) ==
    IF n = HashBits THEN HashBits
    ELSE IF h % 2 = 1 THEN n
    ELSE TrailingZerosFrom(h \div 2, n + 1)

\* u64::trailing_zeros: the width of the hash for 0.
TrailingZeros(h) == TrailingZerosFrom(h, 0)

RECURSIVE LeadingZerosFrom(_, _)
LeadingZerosFrom(h, n) ==
    IF h = 0 THEN HashBits - n
    ELSE LeadingZerosFrom(h \div 2, n + 1)

\* u64::leading_zeros.
LeadingZeros(h) == LeadingZerosFrom(h, 0)

(***************************************************************************)
(* HyperLogLog (hll).  z_inv is an f64 in the program; here it is a        *)
(* fixed-point number with ZFrac fractional bits, which holds 2^(-r)       *)
(* exactly for every level r a hash of HashBits bits can give.             *)
(***************************************************************************)
ZFrac == HashBits + 1
ZOne == 2 ^ ZFrac

\* 2.0_f64.powi(-r), in fixed point.
Pow2Neg(r) == 2 ^ (ZFrac - r)

\* alpha(num_registers), as the fraction AlphaNum / AlphaDen.
AlphaNum(m) ==
    CASE m = 16 -> 673
      [] m = 32 -> 697
      [] m = 64 -> 709
      [] m = 128 -> 715
      [] m = 256 -> 718
      [] m = 512 -> 720
      [] OTHER -> 7213 * m

AlphaDen(m) ==
    IF m \in {16, 32, 64, 128, 256, 512} THEN 1000
    ELSE 10000 * m + 10790

\* hll::Config::new(num_registers, Some(seeds)): seeds[1] and seeds[2] stand
\* for the two seed quadruples of hash_builders[0] and hash_builders[1].
HllConfig(m, seeds) == [num_registers |-> m, seeds |-> seeds]

\* PartialEq for hll::Config (alpha is a function of num_registers).
HllConfigEq(c1, c2) ==
    /\ c1.num_registers = c2.num_registers
    /\ AlphaNum(c1.num_registers) = AlphaNum(c2.num_registers)
    /\ c1.seeds = c2.seeds

HllNew(config) ==
    [config |-> config,
     registers |-> [r \in 0 .. (config.num_registers - 1) |-> 0],
     num_zero_registers |-> config.num_registers,
     z_inv |-> config.num_registers * ZOne]

\* HyperLogLog::item_hash: the level of an item.
HllItemHash(config, item) == TrailingZeros(HashOne(config.seeds[2], item)) + 1

\* The register of an item.
HllRegisterOf(config, item) == HashOne(config.seeds[1], item) % config.num_registers

\* insert_hash without the decrement of num_zero_registers.
HllInsertHashStaleZeros(h, item, z) ==
    LET r == HllRegisterOf(h.config, item)
        old == h.registers[r]
    IN  IF z > old
        THEN [h EXCEPT
                !.z_inv = (@ - Pow2Neg(old)) + Pow2Neg(z),
                !.registers = [@ EXCEPT ![r] = z]]
        ELSE h

HllInsertHash(h, item, z) ==
    LET r == HllRegisterOf(h.config, item)
        old == h.registers[r]
    IN  IF z > old
        THEN [h EXCEPT
                !.num_zero_registers = IF old = 0 THEN @ - 1 ELSE @,
                !.z_inv = (@ - Pow2Neg(old)) + Pow2Neg(z),
                !.registers = [@ EXCEPT ![r] = z]]
        ELSE h

HllInsert(h, item) == HllInsertHash(h, item, HllItemHash(h.config, item))

\* The caches as merge computes them, from the registers alone.
HllZInvOf(registers) ==
    SumOver([r \in DOMAIN registers |-> Pow2Neg(registers[r])], DOMAIN registers)

HllZerosOf(registers) == Cardinality({r \in DOMAIN registers : registers[r] = 0})

\* merge: the result and the sketch afterwards.
HllMerge(h, o) ==
    IF ~HllConfigEq(h.config, o.config)
    THEN [res |-> "ConfigMismatch", sk |-> h]
    ELSE LET regs == [r \in DOMAIN h.registers |-> Max(o.registers[r], h.registers[r])]
         IN  [res |-> "Ok",
              sk |-> [h EXCEPT !.registers = regs,
                               !.z_inv = HllZInvOf(regs),
                               !.num_zero_registers = HllZerosOf(regs)]]

HllClear(h) ==
    [h EXCEPT !.registers = [r \in DOMAIN h.registers |-> 0],
              !.z_inv = h.config.num_registers * ZOne,
              !.num_zero_registers = h.config.num_registers]

\* round(m * ln(m / z)) for m = 16 and z = 1 .. 16, and for m = 32.
LinearCountingTable16 == <<44, 33, 27, 22, 19, 16, 13, 11, 9, 8, 6, 5, 3, 2, 1, 0>>
LinearCountingTable32 ==
    <<111, 89, 76, 67, 59, 54, 49, 44, 41, 37, 34, 31, 29, 26, 24, 22,
      20, 18, 17, 15, 13, 12, 11, 9, 8, 7, 5, 4, 3, 2, 1, 0>>

\* linear_counting(num_registers, num_zero_registers) = m * ln(m / zeros),
\* rounded; tabulated for the register counts the sketches of this model have.
LinearCounting(m, zeros) ==
    IF m = 16 THEN LinearCountingTable16[zeros] ELSE LinearCountingTable32[zeros]

HllCardinality(h) ==
    LET m == h.config.num_registers
        estimate == (m * m * AlphaNum(m) * ZOne) \div (AlphaDen(m) * h.z_inv)
    IN  IF estimate <= 5 * (m \div 2) /\ h.num_zero_registers > 0
        THEN LinearCounting(m, h.num_zero_registers)
        ELSE estimate

(***************************************************************************)
(* Sequences as the iterator adaptors use them.                            *)
(***************************************************************************)
\* Every order in which a HashMap or HashSet may iterate over S.
RECURSIVE IterOrders(_)
IterOrders(S) ==
    IF S = {} THEN {<<>>}
    ELSE UNION {{<<x>> \o t : t \in IterOrders(S \ {x})} : x \in S}

\* Insert entry e = <<label, key>> after the last entry whose key is <= e's.
RECURSIVE InsertSorted(_, _)
InsertSorted(sorted, e) ==
    IF sorted = <<>> THEN <<e>>
    ELSE IF sorted[Len(sorted)][2] <= e[2] THEN Append(sorted, e)
    ELSE Append(InsertSorted(SubSeq(sorted, 1, Len(sorted) - 1), e), sorted[Len(sorted)])

\* sort_by_key / sorted_by_key on the second component: a stable sort.
RECURSIVE SortByKey(_)
SortByKey(entries) ==
    IF entries = <<>> THEN <<>>
    ELSE InsertSorted(SortByKey(SubSeq(entries, 1, Len(entries) - 1)), entries[Len(entries)])

Rev(seq) == [i \in 1 .. Len(seq) |-> seq[Len(seq) + 1 - i]]

Take(seq, k) == SubSeq(seq, 1, Min(k, Len(seq)))

Skip(seq, k) == SubSeq(seq, Min(k, Len(seq)) + 1, Len(seq))

LabelsOf(entries) == {entries[i][1] : i \in 1 .. Len(entries)}

\* f without the key l, and f with l mapped to v.
RemoveKey(f, l) == [x \in DOMAIN f \ {l} |-> f[x]]
PutKey(f, l, v) == [x \in DOMAIN f \cup {l} |-> IF x = l THEN v ELSE f[x]]

(***************************************************************************)
(* Cached<S> (sss/src/cached.rs; the ssss crate wraps its sketches in the  *)
(* same way) over S = HyperLogLog.                                         *)
(***************************************************************************)
CachedNew(config) == [sketch |-> HllNew(config), cardinality |-> 0]

\* Cached::insert caching the cardinality read before the insert.
CachedInsertStale(c, item) ==
    [sketch |-> HllInsert(c.sketch, item), cardinality |-> HllCardinality(c.sketch)]

CachedInsert(c, item) ==
    LET sk == HllInsert(c.sketch, item)
    IN  [sketch |-> sk, cardinality |-> HllCardinality(sk)]

CachedMerge(c, o) ==
    LET m == HllMerge(c.sketch, o.sketch)
    IN  IF m.res = "Ok"
        THEN [res |-> "Ok", sk |-> [sketch |-> m.sk, cardinality |-> HllCardinality(m.sk)]]
        ELSE [res |-> m.res, sk |-> c]

CachedClear(c) == [sketch |-> HllClear(c.sketch), cardinality |-> 0]

CachedCardinality(c) == c.cardinality

(***************************************************************************)
(* Space-Saving Sets (sss).                                                *)
(***************************************************************************)
CounterNew(sketch) == [sketch |-> sketch, offset |-> 0]

\* Counter::reset banking the cardinality without clearing the sketch.
CounterResetNoClear(c, reset_strategy) ==
    IF reset_strategy = "Recycle" THEN c
    ELSE [sketch |-> c.sketch, offset |-> c.offset + CachedCardinality(c.sketch)]

\* Counter::reset taking the Offset arm whatever the strategy.
CounterResetAlwaysOffset(c, reset_strategy) ==
    [sketch |-> CachedClear(c.sketch),
     offset |-> c.offset + CachedCardinality(c.sketch)]

\* reset that under Offset clears the sketch and the offset with it.
CounterResetForgets(c, reset_strategy) ==
    IF reset_strategy = "Recycle" THEN c
    ELSE [sketch |-> CachedClear(c.sketch), offset |-> 0]

CounterReset(c, reset_strategy) ==
    IF reset_strategy = "Recycle" THEN c
    ELSE [sketch |-> CachedClear(c.sketch),
          offset |-> c.offset + CachedCardinality(c.sketch)]

OffsetCardinality(c) == CachedCardinality(c.sketch) + c.offset

SssConfig(size, reset_strategy, sub) ==
    [max_num_counters |-> size, reset_strategy |-> reset_strategy,
     cardinality_sketch_config |-> sub]

\* #[derive(PartialEq)] on sss::Config.
SssConfigEq(c1, c2) ==
    /\ c1.max_num_counters = c2.max_num_counters
    /\ c1.reset_strategy = c2.reset_strategy
    /\ HllConfigEq(c1.cardinality_sketch_config, c2.cardinality_sketch_config)

SssNew(config) == [config |-> config, counters |-> <<>>]

SssFull(s) == Cardinality(DOMAIN s.counters) = s.config.max_num_counters

\* get_min_label with max_by_key.
SssMaxLabels(s) ==
    {l \in DOMAIN s.counters :
        \A l2 \in DOMAIN s.counters :
            OffsetCardinality(s.counters[l]) >= OffsetCardinality(s.counters[l2])}

\* get_min_label: min_by_key returns the first minimum in the map's
\* iteration order, which may be any label of minimum cardinality.
SssMinLabels(s) ==
    {l \in DOMAIN s.counters :
        \A l2 \in DOMAIN s.counters :
            OffsetCardinality(s.counters[l]) <= OffsetCardinality(s.counters[l2])}

\* insert: the sketches the call may leave.
SssInsert(s, label, item) ==
    IF label \in DOMAIN s.counters
    THEN {[s EXCEPT !.counters[label].sketch = CachedInsert(@, item)]}
    ELSE IF SssFull(s)
    THEN {LET counter == CounterReset(s.counters[min_label], s.config.reset_strategy)
          IN  [s EXCEPT !.counters =
                  PutKey(RemoveKey(s.counters, min_label), label,
                         [counter EXCEPT !.sketch = CachedInsert(@, item)])]
          : min_label \in SssMinLabels(s)}
    ELSE {[s EXCEPT !.counters =
              PutKey(s.counters, label,
                     [sketch |-> CachedInsert(CachedNew(s.config.cardinality_sketch_config), item),
                      offset |-> 0])]}

\* The merge of counters also adding other's offsets.
SssMergedCountersAddOffsets(s, o) ==
    [l \in DOMAIN s.counters \cup DOMAIN o.counters |->
        IF l \in DOMAIN o.counters
        THEN LET mine == IF l \in DOMAIN s.counters THEN s.counters[l]
                         ELSE CounterNew(CachedNew(s.config.cardinality_sketch_config))
             IN  [sketch |-> CachedMerge(mine.sketch, o.counters[l].sketch).sk,
                  offset |-> mine.offset + o.counters[l].offset]
        ELSE s.counters[l]]

\* The counters of self after the pointwise merge of other's counters.
SssMergedCounters(s, o) ==
    [l \in DOMAIN s.counters \cup DOMAIN o.counters |->
        IF l \in DOMAIN o.counters
        THEN LET mine == IF l \in DOMAIN s.counters THEN s.counters[l]
                         ELSE CounterNew(CachedNew(s.config.cardinality_sketch_config))
             IN  [mine EXCEPT !.sketch = CachedMerge(@, o.counters[l].sketch).sk]
        ELSE s.counters[l]]

\* The trim of merge skipping one entry too many.
SssTrimmedOffByOne(counters, order, max_num_counters) ==
    LET entries == [i \in 1 .. Len(order) |->
                       <<order[i], OffsetCardinality(counters[order[i]])>>]
    IN  LabelsOf(Skip(Rev(SortByKey(entries)), max_num_counters + 1))

\* The trim of merge without the reversal: it removes the largest entries.
SssTrimmedLargest(counters, order, max_num_counters) ==
    LET entries == [i \in 1 .. Len(order) |->
                       <<order[i], OffsetCardinality(counters[order[i]])>>]
    IN  LabelsOf(Skip(SortByKey(entries), max_num_counters))

\* The labels the trim of merge removes, for one iteration order of the map.
SssTrimmed(counters, order, max_num_counters) ==
    LET entries == [i \in 1 .. Len(order) |->
                       <<order[i], OffsetCardinality(counters[order[i]])>>]
    IN  LabelsOf(Skip(Rev(SortByKey(entries)), max_num_counters))

\* merge: the results and sketches the call may leave.
SssMerge(s, o) ==
    IF ~SssConfigEq(s.config, o.config)
    THEN {[res |-> "ConfigMismatch", sk |-> s]}
    ELSE LET merged == SssMergedCounters(s, o)
         IN  {[res |-> "Ok",
               sk |-> [s EXCEPT !.counters =
                          [l \in DOMAIN merged
                                 \ SssTrimmed(merged, order, s.config.max_num_counters)
                             |-> merged[l]]]]
              : order \in IterOrders(DOMAIN merged)}

\* cardinality answering 0 for every untracked label.
SssCardinalityUntrackedZero(s, label) ==
    IF label \in DOMAIN s.counters
    THEN OffsetCardinality(s.counters[label])
    ELSE 0

SssCardinality(s, label) ==
    IF label \in DOMAIN s.counters
    THEN OffsetCardinality(s.counters[label])
    ELSE IF DOMAIN s.counters = {} THEN 0
    ELSE OffsetCardinality(s.counters[CHOOSE l \in SssMinLabels(s) : TRUE])

\* top(k) without the reversal: the smallest entries first.
SssTopAscending(s, k) ==
    {Take(SortByKey([i \in 1 .. Len(order) |->
                       <<order[i], OffsetCardinality(s.counters[order[i]])>>]), k)
     : order \in IterOrders(DOMAIN s.counters)}

\* top(k): the sequences the call may return.
SssTop(s, k) ==
    {Take(Rev(SortByKey([i \in 1 .. Len(order) |->
                           <<order[i], OffsetCardinality(s.counters[order[i]])>>])), k)
     : order \in IterOrders(DOMAIN s.counters)}

(***************************************************************************)
(* Sampling Space-Saving Sets (ssss).                                      *)
(***************************************************************************)
SsssConfig(max_num_counters, sub, seed) ==
    [max_num_counters |-> max_num_counters, seeds |-> seed,
     cardinality_sketch_config |-> sub]

\* PartialEq for ssss::Config without the comparison of the seeds.
SsssConfigEqNoSeeds(c1, c2) ==
    /\ c1.max_num_counters = c2.max_num_counters
    /\ HllConfigEq(c1.cardinality_sketch_config, c2.cardinality_sketch_config)

\* PartialEq for ssss::Config.
SsssConfigEq(c1, c2) ==
    /\ c1.max_num_counters = c2.max_num_counters
    /\ c1.seeds = c2.seeds
    /\ HllConfigEq(c1.cardinality_sketch_config, c2.cardinality_sketch_config)

SsssNew(config) == [config |-> config, counters |-> <<>>, threshold |-> 0]

\* cardinality_estimate: (u64::MAX as f64 / hash as f64) as u64.  u64::MAX
\* rounds up to the power of two as an f64, and the cast back saturates.
CardinalityEstimate(config, item) ==
    LET h == HashOne(config.seeds, item)
    IN  IF h = 0 THEN HashMax ELSE Min(HashSpace \div h, HashMax)

SsssMinLabels(s) ==
    {l \in DOMAIN s.counters :
        \A l2 \in DOMAIN s.counters :
            CachedCardinality(s.counters[l]) <= CachedCardinality(s.counters[l2])}

\* insert whose sampling gate, when it drops the item, still moves the
\* threshold to the minimum cardinality.
SsssInsertDropMovesThreshold(s, label, item) ==
    IF label \in DOMAIN s.counters
    THEN {[s EXCEPT !.counters[label] = CachedInsert(@, item)]}
    ELSE IF Cardinality(DOMAIN s.counters) < s.config.max_num_counters
    THEN {[s EXCEPT !.counters =
              PutKey(s.counters, label,
                     CachedInsert(CachedNew(s.config.cardinality_sketch_config), item))]}
    ELSE LET cardinality_estimate == CardinalityEstimate(s.config, item)
         IN  {LET min_cardinality == CachedCardinality(s.counters[min_label])
              IN  IF cardinality_estimate > s.threshold
                     /\ cardinality_estimate > min_cardinality
                  THEN [s EXCEPT
                          !.threshold = min_cardinality,
                          !.counters =
                              PutKey(RemoveKey(s.counters, min_label), label,
                                     CachedInsert(s.counters[min_label], item))]
                  ELSE [s EXCEPT !.threshold = min_cardinality]
              : min_label \in SsssMinLabels(s)}

\* insert that hands an evicted label's counter over cleared.
SsssInsertClearsRecycled(s, label, item) ==
    IF label \in DOMAIN s.counters
    THEN {[s EXCEPT !.counters[label] = CachedInsert(@, item)]}
    ELSE IF Cardinality(DOMAIN s.counters) < s.config.max_num_counters
    THEN {[s EXCEPT !.counters =
              PutKey(s.counters, label,
                     CachedInsert(CachedNew(s.config.cardinality_sketch_config), item))]}
    ELSE LET cardinality_estimate == CardinalityEstimate(s.config, item)
         IN  IF cardinality_estimate > s.threshold
             THEN {LET min_cardinality == CachedCardinality(s.counters[min_label])
                   IN  IF cardinality_estimate > min_cardinality
                       THEN [s EXCEPT
                               !.threshold = min_cardinality,
                               !.counters =
                                   PutKey(RemoveKey(s.counters, min_label), label,
                                          CachedInsert(CachedClear(s.counters[min_label]),
                                                       item))]
                       ELSE [s EXCEPT !.threshold = min_cardinality]
                   : min_label \in SsssMinLabels(s)}
             ELSE {s}

\* insert: the sketches the call may leave.
\* insert that, on an eviction, sets the threshold to the item's estimate.
SsssInsertThresholdIsEstimate(s, label, item) ==
    IF label \in DOMAIN s.counters
    THEN {[s EXCEPT !.counters[label] = CachedInsert(@, item)]}
    ELSE IF Cardinality(DOMAIN s.counters) < s.config.max_num_counters
    THEN {[s EXCEPT !.counters =
              PutKey(s.counters, label,
                     CachedInsert(CachedNew(s.config.cardinality_sketch_config), item))]}
    ELSE LET cardinality_estimate == CardinalityEstimate(s.config, item)
         IN  IF cardinality_estimate > s.threshold
             THEN {LET min_cardinality == CachedCardinality(s.counters[min_label])
                   IN  IF cardinality_estimate > min_cardinality
                       THEN [s EXCEPT
                               !.threshold = cardinality_estimate,
                               !.counters =
                                   PutKey(RemoveKey(s.counters, min_label), label,
                                          CachedInsert(s.counters[min_label], item))]
                       ELSE [s EXCEPT !.threshold = min_cardinality]
                   : min_label \in SsssMinLabels(s)}
             ELSE {s}

SsssInsert(s, label, item) ==
    IF label \in DOMAIN s.counters
    THEN {[s EXCEPT !.counters[label] = CachedInsert(@, item)]}
    ELSE IF Cardinality(DOMAIN s.counters) < s.config.max_num_counters
    THEN {[s EXCEPT !.counters =
              PutKey(s.counters, label,
                     CachedInsert(CachedNew(s.config.cardinality_sketch_config), item))]}
    ELSE LET cardinality_estimate == CardinalityEstimate(s.config, item)
         IN  IF cardinality_estimate > s.threshold
             THEN {LET min_cardinality == CachedCardinality(s.counters[min_label])
                   IN  IF cardinality_estimate > min_cardinality
                       THEN [s EXCEPT
                               !.threshold = min_cardinality,
                               !.counters =
                                   PutKey(RemoveKey(s.counters, min_label), label,
                                          CachedInsert(s.counters[min_label], item))]
                       ELSE [s EXCEPT !.threshold = min_cardinality]
                   : min_label \in SsssMinLabels(s)}
             ELSE {s}

SsssMergedCounters(s, o) ==
    [l \in DOMAIN s.counters \cup DOMAIN o.counters |->
        IF l \in DOMAIN o.counters
        THEN CachedMerge(IF l \in DOMAIN s.counters THEN s.counters[l]
                         ELSE CachedNew(s.config.cardinality_sketch_config),
                         o.counters[l]).sk
        ELSE s.counters[l]]

SsssTrimmed(counters, order, max_num_counters) ==
    LET entries == [i \in 1 .. Len(order) |->
                       <<order[i], CachedCardinality(counters[order[i]])>>]
    IN  LabelsOf(Skip(Rev(SortByKey(entries)), max_num_counters))

\* merge that takes other's threshold whatever its own.
SsssMergeTakesThreshold(s, o) ==
    IF ~SsssConfigEq(s.config, o.config)
    THEN {[res |-> "ConfigMismatch", sk |-> s]}
    ELSE LET merged == SsssMergedCounters(s, o)
         IN  {[res |-> "Ok",
               sk |-> [s EXCEPT
                         !.threshold = o.threshold,
                         !.counters =
                          [l \in DOMAIN merged
                                 \ SsssTrimmed(merged, order, s.config.max_num_counters)
                             |-> merged[l]]]]
              : order \in IterOrders(DOMAIN merged)}

\* merge: the results and sketches the call may leave.
SsssMerge(s, o) ==
    IF ~SsssConfigEq(s.config, o.config)
    THEN {[res |-> "ConfigMismatch", sk |-> s]}
    ELSE LET merged == SsssMergedCounters(s, o)
         IN  {[res |-> "Ok",
               sk |-> [s EXCEPT
                         !.threshold = Min(o.threshold, s.threshold),
                         !.counters =
                          [l \in DOMAIN merged
                                 \ SsssTrimmed(merged, order, s.config.max_num_counters)
                             |-> merged[l]]]]
              : order \in IterOrders(DOMAIN merged)}

SsssCardinality(s, label) ==
    IF label \in DOMAIN s.counters
    THEN CachedCardinality(s.counters[label])
    ELSE IF DOMAIN s.counters = {} THEN 0
    ELSE CachedCardinality(s.counters[CHOOSE l \in SsssMinLabels(s) : TRUE])

\* top(k): the sequences the call may return.
SsssTop(s, k) ==
    {Take(Rev(SortByKey([i \in 1 .. Len(order) |->
                           <<order[i], CachedCardinality(s.counters[order[i]])>>])), k)
     : order \in IterOrders(DOMAIN s.counters)}

(***************************************************************************)
(* Count-HLL (count_hll): PointwiseSketch and its two invertible overlays. *)
(***************************************************************************)
RECURSIVE Log2(_)
\* usize::trailing_zeros of a power of two.
Log2(d) == IF d <= 1 THEN 0 ELSE 1 + Log2(d \div 2)

\* count_hll::Config::new(d, w, Some(seeds)): seeds[1 .. 3] stand for the
\* seed quadruples of the three hash builders.
ChllConfig(d, w, seeds) ==
    [depth |-> d, depth_log2 |-> Log2(d), width |-> w, seeds |-> seeds,
     cardinality_estimation_method |-> "MaximumLikelihood"]

\* PartialEq for count_hll::Config.
ChllConfigEq(c1, c2) ==
    /\ c1.depth = c2.depth
    /\ c1.depth_log2 = c2.depth_log2
    /\ c1.width = c2.width
    /\ c1.seeds = c2.seeds
    /\ c1.cardinality_estimation_method = c2.cardinality_estimation_method

PointwiseNew(config) ==
    [config |-> config,
     registers |-> [i \in 0 .. (config.depth * config.width - 1) |-> 0]]

\* The column of row r for a label.
PointwiseColumn(config, r, label) ==
    HashOne(config.seeds[3], PairKey(r, label)) % config.width

\* register(r, b): the index r + (b << depth_log2).
PointwiseRegisterIndex(config, r, b) == r + b * (2 ^ config.depth_log2)

PointwiseGetIndex(config, label, item) ==
    LET r == HashOne(config.seeds[1], PairKey(item, label)) % config.depth
    IN  PointwiseRegisterIndex(config, r, PointwiseColumn(config, r, label))

PointwiseGetZ(config, label, item) ==
    TrailingZeros(HashOne(config.seeds[2], PairKey(item, label))) + 1

PointwiseInsert(s, label, item) ==
    LET z == PointwiseGetZ(s.config, label, item)
        index == PointwiseGetIndex(s.config, label, item)
    IN  [s EXCEPT !.registers[index] = Max(z, @)]

\* merge that overwrites self's registers with other's.
PointwiseMergeTakesOther(s, o) ==
    IF ~ChllConfigEq(s.config, o.config)
    THEN [res |-> "ConfigMismatch", sk |-> s]
    ELSE [res |-> "Ok", sk |-> [s EXCEPT !.registers = o.registers]]

PointwiseMerge(s, o) ==
    IF ~ChllConfigEq(s.config, o.config)
    THEN [res |-> "ConfigMismatch", sk |-> s]
    ELSE [res |-> "Ok",
          sk |-> [s EXCEPT !.registers =
                     [i \in DOMAIN s.registers |-> Max(o.registers[i], s.registers[i])]]]

PointwiseClear(s) == [s EXCEPT !.registers = [i \in DOMAIN s.registers |-> 0]]

\* signal(label): the register values read, in the order read.
PointwiseSignal(s, label) ==
    [j \in 1 .. s.config.depth |->
        s.registers[PointwiseRegisterIndex(s.config, j - 1,
                                          PointwiseColumn(s.config, j - 1, label))]]

\* The columns of a row other than b0, ascending.
RECURSIVE OtherColumns(_, _, _)
OtherColumns(b, width, b0) ==
    IF b >= width THEN <<>>
    ELSE (IF b # b0 THEN <<b>> ELSE <<>>) \o OtherColumns(b + 1, width, b0)

RECURSIVE BackgroundFrom(_, _, _)
BackgroundFrom(s, label, r) ==
    IF r >= s.config.depth THEN <<>>
    ELSE LET cols == OtherColumns(0, s.config.width,
                                  PointwiseColumn(s.config, r, label))
         IN  [j \in 1 .. Len(cols) |->
                 s.registers[PointwiseRegisterIndex(s.config, r, cols[j])]]
             \o BackgroundFrom(s, label, r + 1)

\* background(label): the register values read, in the order read.
PointwiseBackground(s, label) == BackgroundFrom(s, label, 0)

\* Distribution::from_iter: the histogram (pmf) of the values collected;
\* pmf[i + 1] counts the value i.
DistributionOf(values) ==
    LET top == IF values = <<>> THEN 0 - 1
               ELSE CHOOSE v \in {values[j] : j \in 1 .. Len(values)} :
                        \A j \in 1 .. Len(values) : values[j] <= v
    IN  [i \in 1 .. (top + 1) |-> Cardinality({j \in 1 .. Len(values) : values[j] = i - 1})]

\* argmax_cl(signal, background): the Newton-Raphson estimate is a
\* floating-point function of the two distributions and of nothing else;
\* the model keeps the call as a term.
ArgmaxCl(signal, background) == [signal |-> signal, background |-> background]

\* cardinality(label).  Each Distribution is collected through
\* new_from_pmf, which unwraps the last element of the cdf: with no value
\* collected the pmf and the cdf are empty and the call aborts.
PointwiseCardinality(s, label) ==
    LET signal == DistributionOf(PointwiseSignal(s, label))
        background == DistributionOf(PointwiseBackground(s, label))
    IN  IF signal = <<>> \/ background = <<>>
        THEN [panic |-> "Distribution::new_from_pmf"]
        ELSE ArgmaxCl(signal, background)

\* LabelSetCountHLL.
LabelSetNew(config) == [sketch |-> PointwiseNew(config), labels |-> {}]

LabelSetInsert(s, label, item) ==
    [sketch |-> PointwiseInsert(s.sketch, label, item),
     labels |-> s.labels \cup {label}]

\* merge that leaves the label set as it was.
LabelSetMergeKeepsLabels(s, o) ==
    LET m == PointwiseMerge(s.sketch, o.sketch)
    IN  IF m.res # "Ok" THEN [res |-> m.res, sk |-> s]
        ELSE [res |-> "Ok", sk |-> [sketch |-> m.sk, labels |-> s.labels]]

LabelSetMerge(s, o) ==
    LET m == PointwiseMerge(s.sketch, o.sketch)
    IN  IF m.res # "Ok" THEN [res |-> m.res, sk |-> s]
        ELSE [res |-> "Ok",
              sk |-> [sketch |-> m.sk, labels |-> s.labels \cup o.labels]]

LabelSetClear(s) == [sketch |-> PointwiseClear(s.sketch), labels |-> {}]

LabelSetCardinality(s, label) == PointwiseCardinality(s.sketch, label)

\* top(k): sorted_by_key(cardinality).rev().take(k) of the entries, for
\* each order in which the label set may iterate.  The sort compares
\* Newton-Raphson estimates; the model keeps its argument.
LabelSetTop(s, k) ==
    {[entries |-> [i \in 1 .. Len(order) |->
                      <<order[i], LabelSetCardinality(s, order[i])>>],
      take |-> k]
     : order \in IterOrders(s.labels)}

\* sorted_by_key(cardinality).rev().take(k) of a top kept with its entries,
\* est giving the u64 each estimate evaluates to.
SortedTop(t, est) ==
    Take(Rev(SortByKey([i \in 1 .. Len(t.entries) |->
                           <<t.entries[i][1], est[t.entries[i][2]]>>])), t.take)

\* LabelArrayCountHLL: a cell is <<owner, level>>; the owner is a set of at
\* most one label (Option<L>).
LabelArrayNew(config) ==
    [sketch |-> PointwiseNew(config),
     labels |-> [i \in 0 .. (config.depth * config.width - 1) |-> <<{}, 0>>]]

\* insert that gives a cell to the new label on equal levels too.
LabelArrayInsertTiesToNew(s, label, item) ==
    LET sk == PointwiseInsert(s.sketch, label, item)
        index == PointwiseGetIndex(sk.config, label, item)
        z == PointwiseGetZ(sk.config, label, item)
    IN  [sketch |-> sk,
         labels |-> IF z >= s.labels[index][2]
                    THEN [s.labels EXCEPT ![index] = <<{label}, z>>]
                    ELSE s.labels]

LabelArrayInsert(s, label, item) ==
    LET sk == PointwiseInsert(s.sketch, label, item)
        index == PointwiseGetIndex(sk.config, label, item)
        z == PointwiseGetZ(sk.config, label, item)
    IN  [sketch |-> sk,
         labels |-> IF z > s.labels[index][2]
                    THEN [s.labels EXCEPT ![index] = <<{label}, z>>]
                    ELSE s.labels]

LabelArrayMerge(s, o) ==
    LET m == PointwiseMerge(s.sketch, o.sketch)
    IN  IF m.res # "Ok" THEN [res |-> m.res, sk |-> s]
        ELSE [res |-> "Ok",
              sk |-> [sketch |-> m.sk,
                      labels |-> [i \in DOMAIN s.labels |->
                                     IF o.labels[i][2] > s.labels[i][2]
                                     THEN o.labels[i] ELSE s.labels[i]]]]

\* clear that zeroes the registers and leaves the label cells.
LabelArrayClearKeepsLabels(s) == [s EXCEPT !.sketch = PointwiseClear(s.sketch)]

LabelArrayClear(s) ==
    [sketch |-> PointwiseClear(s.sketch),
     labels |-> [i \in DOMAIN s.labels |-> <<{}, 0>>]]

LabelArrayCardinality(s, label) == PointwiseCardinality(s.sketch, label)

\* The owners of cells from index i on, each once, in order of first
\* appearance (flat_map over the options, then unique()).
RECURSIVE UniqueOwners(_, _, _)
UniqueOwners(cells, i, seen) ==
    IF i \notin DOMAIN cells THEN <<>>
    ELSE LET fresh == cells[i][1] \ seen
         IN  (IF fresh = {} THEN <<>> ELSE <<CHOOSE l \in fresh : TRUE>>)
             \o UniqueOwners(cells, i + 1, seen \cup fresh)

LabelArrayTop(s, k) ==
    LET owners == UniqueOwners(s.labels, 0, {})
    IN  [entries |-> [i \in 1 .. Len(owners) |->
                         <<owners[i], LabelArrayCardinality(s, owners[i])>>],
         take |-> k]

(***************************************************************************)
(* SpreadSketch (spread) over S = HyperLogLog.                             *)
(***************************************************************************)
\* spread::Config::new(num_rows, num_cols, sub, Some(seeds)): seeds[1 .. 2]
\* stand for the seed quadruples of the two hash builders.
SpreadConfig(num_rows, num_cols, sub, seeds) ==
    [num_rows |-> num_rows, num_cols |-> num_cols, seeds |-> seeds,
     cardinality_sketch_config |-> sub]

\* PartialEq for spread::Config.
SpreadConfigEq(c1, c2) ==
    /\ c1.num_rows = c2.num_rows
    /\ c1.num_cols = c2.num_cols
    /\ c1.seeds = c2.seeds
    /\ HllConfigEq(c1.cardinality_sketch_config, c2.cardinality_sketch_config)

BucketNew(config) == [label |-> {}, sketch |-> HllNew(config), level |-> 0]

\* update that replaces the owner on a strictly greater level alone.
BucketUpdateStrict(b, label, item, l) ==
    LET sk == HllInsert(b.sketch, item)
    IN  IF b.level < l
        THEN [label |-> {label}, sketch |-> sk, level |-> l]
        ELSE [b EXCEPT !.sketch = sk]

BucketUpdate(b, label, item, l) ==
    LET sk == HllInsert(b.sketch, item)
    IN  IF b.level <= l
        THEN [label |-> {label}, sketch |-> sk, level |-> l]
        ELSE [b EXCEPT !.sketch = sk]

BucketCount(b) == HllCardinality(b.sketch)

\* merge that keeps the whole bucket of the greater level, its sketch
\* unmerged.
BucketMergeKeepsOneSketch(b, o) == IF o.level > b.level THEN o ELSE b

\* merge that takes other's owner on equal levels too.
BucketMergeTiesToOther(b, o) ==
    LET m == HllMerge(b.sketch, o.sketch)
    IN  IF o.level >= b.level
        THEN [label |-> o.label, sketch |-> m.sk, level |-> o.level]
        ELSE [b EXCEPT !.sketch = m.sk]

BucketMerge(b, o) ==
    LET m == HllMerge(b.sketch, o.sketch)
    IN  IF o.level > b.level
        THEN [label |-> o.label, sketch |-> m.sk, level |-> o.level]
        ELSE [b EXCEPT !.sketch = m.sk]

SpreadNew(config) ==
    [config |-> config,
     buckets |-> [i \in 0 .. (config.num_rows * config.num_cols - 1) |->
                     BucketNew(config.cardinality_sketch_config)]]

GlobalHash(config, label, item) == HashOne(config.seeds[1], PairKey(item, label))

RowHash(config, row, label) ==
    HashOne(config.seeds[2], PairKey(row, label)) % config.num_cols

BucketIndex(config, row_index, col_index) == row_index * config.num_cols + col_index

\* The bucket of a label in a row.
SpreadBucketOf(config, row, label) ==
    BucketIndex(config, row, RowHash(config, row, label))

SpreadInsert(s, label, item) ==
    LET l == LeadingZeros(GlobalHash(s.config, label, item))
        touched == {SpreadBucketOf(s.config, r, label) : r \in 0 .. (s.config.num_rows - 1)}
    IN  [s EXCEPT !.buckets =
            [i \in DOMAIN s.buckets |->
                IF i \in touched THEN BucketUpdate(s.buckets[i], label, item, l)
                ELSE s.buckets[i]]]

SpreadMerge(s, o) ==
    IF ~SpreadConfigEq(s.config, o.config)
    THEN [res |-> "ConfigMismatch", sk |-> s]
    ELSE [res |-> "Ok",
          sk |-> [s EXCEPT !.buckets =
                     [i \in DOMAIN s.buckets |-> BucketMerge(s.buckets[i], o.buckets[i])]]]

SpreadCardinality(s, label) ==
    LET counts == {BucketCount(s.buckets[SpreadBucketOf(s.config, r, label)])
                   : r \in 0 .. (s.config.num_rows - 1)}
    IN  CHOOSE c \in counts : \A c2 \in counts : c <= c2

RECURSIVE SpreadOwners(_, _, _)
\* The owners of buckets from index i on, each once, in bucket order.
SpreadOwners(buckets, i, seen) ==
    IF i \notin DOMAIN buckets THEN <<>>
    ELSE LET fresh == buckets[i].label \ seen
         IN  (IF fresh = {} THEN <<>> ELSE <<CHOOSE l \in fresh : TRUE>>)
             \o SpreadOwners(buckets, i + 1, seen \cup fresh)

\* sorted_by_key(|&(_, cardinality)| -(cardinality as i32)) on a sequence of
\* <<label, cardinality>>.  The cast keeps the low I32Bits bits as a signed
\* number; negating the least i32 overflows, which aborts a build with
\* overflow checks and wraps in one without.  A sequence of fewer than two
\* entries is not compared, so no key is computed.
SpreadSorted(build, scored) ==
    LET half == 2 ^ (I32Bits - 1)
        low(c) == c % (2 ^ I32Bits)
        asI32(c) == IF low(c) >= half THEN low(c) - 2 ^ I32Bits ELSE low(c)
        key(c) == IF asI32(c) = 0 - half THEN 0 - half ELSE 0 - asI32(c)
        keyed == SortByKey([i \in 1 .. Len(scored) |-> <<scored[i], key(scored[i][2])>>])
    IN  IF /\ build = "debug"
           /\ Len(scored) >= 2
           /\ \E i \in 1 .. Len(scored) : asI32(scored[i][2]) = 0 - half
        THEN [res |-> "panic", top |-> <<>>]
        ELSE [res |-> "Ok", top |-> [i \in 1 .. Len(keyed) |-> keyed[i][1]]]

\* top(k): the owners scored by cardinality, sorted, the first k taken.  The
\* cardinalities of the HLL buckets built here are below 2^(I32Bits-1),
\* where the two builds agree.
SpreadTop(s, k) ==
    LET owners == SpreadOwners(s.buckets, 0, {})
    IN  Take(SpreadSorted("release", [i \in 1 .. Len(owners) |->
                 <<owners[i], SpreadCardinality(s, owners[i])>>]).top, k)

(***************************************************************************)
(* The sketch types, by name: the trait methods of each.                   *)
(***************************************************************************)
Kinds == {"hll", "pointwise", "labelset", "labelarray", "spread", "sss", "ssss"}

\* The sketch types that take (label, item) pairs.
LabelKinds == Kinds \ {"hll"}

\* The configurations self is built with.
BaseHll == HllConfig(16, <<0, 1>>)

SelfConfigs(k) ==
    CASE k = "hll" -> {BaseHll}
      [] k \in {"pointwise", "labelset", "labelarray"} -> {ChllConfig(2, 2, <<0, 1, 2>>)}
      [] k = "spread" -> {SpreadConfig(2, 2, BaseHll, <<0, 1>>)}
      [] k = "sss" -> {SssConfig(2, "Recycle", BaseHll), SssConfig(2, "Offset", BaseHll)}
      [] k = "ssss" -> {SsssConfig(2, BaseHll, 4), SsssConfig(2, BaseHll, 6)}

\* The configurations other is built with: that of self, or one that
\* differs from it in one parameter.
PeerConfigs(k, c) ==
    {c} \cup
    CASE k = "hll" -> {HllConfig(32, c.seeds), HllConfig(16, <<0, 3>>)}
      [] k \in {"pointwise", "labelset", "labelarray"} ->
            {ChllConfig(2, 3, c.seeds), ChllConfig(2, 2, <<0, 1, 3>>)}
      [] k = "spread" ->
            {SpreadConfig(1, 2, BaseHll, c.seeds), SpreadConfig(2, 2, BaseHll, <<0, 2>>),
             SpreadConfig(2, 2, HllConfig(16, <<1, 1>>), c.seeds)}
      [] k = "sss" ->
            {SssConfig(1, c.reset_strategy, BaseHll),
             SssConfig(2, IF c.reset_strategy = "Offset" THEN "Recycle" ELSE "Offset", BaseHll),
             SssConfig(2, c.reset_strategy, HllConfig(16, <<1, 1>>))}
      [] k = "ssss" ->
            {SsssConfig(1, BaseHll, c.seeds), SsssConfig(2, BaseHll, 0),
             SsssConfig(2, HllConfig(16, <<1, 1>>), c.seeds)}

\* New::new(config).
NewSketch(k, config) ==
    CASE k = "hll" -> HllNew(config)
      [] k = "pointwise" -> PointwiseNew(config)
      [] k = "labelset" -> LabelSetNew(config)
      [] k = "labelarray" -> LabelArrayNew(config)
      [] k = "spread" -> SpreadNew(config)
      [] k = "sss" -> SssNew(config)
      [] k = "ssss" -> SsssNew(config)

\* The config a sketch was built with.
ConfigOf(k, s) ==
    IF k \in {"labelset", "labelarray"} THEN s.sketch.config ELSE s.config

\* insert(label, item) (insert(item) for HLL): the sketches it may leave.
InsertOutcomes(k, s, label, item) ==
    CASE k = "hll" -> {HllInsert(s, item)}
      [] k = "pointwise" -> {PointwiseInsert(s, label, item)}
      [] k = "labelset" -> {LabelSetInsert(s, label, item)}
      [] k = "labelarray" -> {LabelArrayInsert(s, label, item)}
      [] k = "spread" -> {SpreadInsert(s, label, item)}
      [] k = "sss" -> SssInsert(s, label, item)
      [] k = "ssss" -> SsssInsert(s, label, item)

\* merge(other): the results and sketches it may leave.
MergeOutcomes(k, s, o) ==
    CASE k = "hll" -> {HllMerge(s, o)}
      [] k = "pointwise" -> {PointwiseMerge(s, o)}
      [] k = "labelset" -> {LabelSetMerge(s, o)}
      [] k = "labelarray" -> {LabelArrayMerge(s, o)}
      [] k = "spread" -> {SpreadMerge(s, o)}
      [] k = "sss" -> SssMerge(s, o)
      [] k = "ssss" -> SsssMerge(s, o)

\* cardinality(label) (cardinality() for HLL).
CardinalityOf(k, s, label) ==
    CASE k = "hll" -> HllCardinality(s)
      [] k = "pointwise" -> PointwiseCardinality(s, label)
      [] k = "labelset" -> LabelSetCardinality(s, label)
      [] k = "labelarray" -> LabelArrayCardinality(s, label)
      [] k = "spread" -> SpreadCardinality(s, label)
      [] k = "sss" -> SssCardinality(s, label)
      [] k = "ssss" -> SsssCardinality(s, label)

\* top(k): the values it may return (HLL and PointwiseSketch have no top).
TopOutcomes(k, s, n) ==
    CASE k = "labelset" -> LabelSetTop(s, n)
      [] k = "labelarray" -> {LabelArrayTop(s, n)}
      [] k = "spread" -> {SpreadTop(s, n)}
      [] k = "sss" -> SssTop(s, n)
      [] k = "ssss" -> SsssTop(s, n)
      [] OTHER -> {}

\* Whether the sketch holds a counter of its own for the label.
Tracked(k, s, label) == k \in {"sss", "ssss"} => label \in DOMAIN s.counters

\* The branch an SSS or SSSS insert takes.
InsertBranch(k, s, label, item) ==
    CASE k = "sss" ->
            IF label \in DOMAIN s.counters THEN "insert_tracked"
            ELSE IF SssFull(s) THEN "insert_evict" ELSE "insert_new"
      [] k = "ssss" ->
            IF label \in DOMAIN s.counters THEN "insert_tracked"
            ELSE IF Cardinality(DOMAIN s.counters) < s.config.max_num_counters
            THEN "insert_new"
            ELSE IF CardinalityEstimate(s.config, item) <= s.threshold
            THEN "insert_gate_drop"
            ELSE IF \E l \in DOMAIN s.counters :
                        CardinalityEstimate(s.config, item) > CachedCardinality(s.counters[l])
            THEN "insert_evict" ELSE "insert_min_drop"
      [] OTHER -> "insert"

(***************************************************************************)
(* The sketches a merge is given: built as the tests build theirs, label   *)
(* by label, each label with the items 0, 1, ..., from new(config).        *)
(***************************************************************************)
LabelsFor(k) == IF k = "hll" THEN {0} ELSE Labels
ItemsFor(k) == IF k = "hll" THEN HllItems ELSE Items

RECURSIVE FillLabel(_, _, _, _)
\* for i in 0..n { sketch.insert(label, &i) }, from each sketch of S.
FillLabel(k, S, label, n) ==
    IF n = 0 THEN S
    ELSE UNION {InsertOutcomes(k, s, label, n - 1) : s \in FillLabel(k, S, label, n - 1)}

RECURSIVE FillLabels(_, _, _, _)
\* for label in L { for i in 0..n { sketch.insert(label, &i) } }.
FillLabels(k, S, L, n) ==
    IF L = {} THEN S
    ELSE LET label == CHOOSE l \in L : \A l2 \in L : l <= l2
         IN  FillLabels(k, FillLabel(k, S, label, n), L \ {label}, n)

BuiltFrom(k, config) ==
    UNION {FillLabels(k, {NewSketch(k, config)}, L, n)
           : L \in SUBSET LabelsFor(k), n \in 1 .. Cardinality(ItemsFor(k))}

\* The merge arguments for a sketch of each type and config.
Peers ==
    [k \in Kinds |->
        [c \in SelfConfigs(k) |-> UNION {BuiltFrom(k, pc) : pc \in PeerConfigs(k, c)}]]

(***************************************************************************)
(* The program: a sketch built from its config, and the calls made on it.  *)
(***************************************************************************)
NoHistory == marked = {} /\ kept = TRUE
NoDriver == curLabel = 0 /\ cursor = 0

InitKind(k) ==
    /\ kind = k
    /\ \E c \in SelfConfigs(k) : self = NewSketch(k, c)
    /\ last = "new"
    /\ NoHistory
    /\ NoDriver

Init == \E k \in Kinds : InitKind(k)

Ghosts == <<marked, kept, curLabel, cursor>>

\* self.insert(label, item)
InsertSelf(k, label, item) ==
    /\ kind = k
    /\ self' \in InsertOutcomes(k, self, label, item)
    /\ k = "sss" => \A l \in DOMAIN self'.counters : self'.counters[l].offset <= MaxOffset
    /\ last' = InsertBranch(k, self, label, item)
    /\ UNCHANGED <<kind, Ghosts>>

\* Whether merge has more entries than max_num_counters to trim (SSS, SSSS).
MergeTrims(k, s, o) ==
    /\ k \in {"sss", "ssss"}
    /\ Cardinality(DOMAIN s.counters \cup DOMAIN o.counters) > s.config.max_num_counters

\* self.merge(&o) for a sketch o built elsewhere.
MergePeer(k) ==
    /\ kind = k
    /\ \E o \in Peers[k][ConfigOf(k, self)] :
          \E m \in MergeOutcomes(k, self, o) :
              /\ self' = m.sk
              /\ last' = IF m.res # "Ok" THEN "merge_err"
                         ELSE IF MergeTrims(k, self, o) THEN "merge_trim"
                         ELSE "merge_ok"
    /\ UNCHANGED <<kind, Ghosts>>

\* self.merge(&self.clone())
MergeClone(k) ==
    /\ kind = k
    /\ \E m \in MergeOutcomes(k, self, self) :
          /\ self' = m.sk
          /\ last' = IF m.res = "Ok" THEN "clone_ok" ELSE "clone_err"
    /\ UNCHANGED <<kind, Ghosts>>

\* HyperLogLog: insert, merge, clear.
HllClearSelf ==
    /\ kind = "hll"
    /\ self' = HllClear(self)
    /\ last' = "clear"
    /\ UNCHANGED <<kind, Ghosts>>

NextHll ==
    \/ \E x \in HllItems : InsertSelf("hll", 0, x)
    \/ MergePeer("hll")
    \/ MergeClone("hll")
    \/ HllClearSelf

\* PointwiseSketch, LabelSetCountHLL, LabelArrayCountHLL.
ChllKinds == {"pointwise", "labelset", "labelarray"}

ChllClearSelf ==
    /\ kind \in ChllKinds
    /\ self' = CASE kind = "pointwise" -> PointwiseClear(self)
                 [] kind = "labelset" -> LabelSetClear(self)
                 [] kind = "labelarray" -> LabelArrayClear(self)
    /\ last' = "clear"
    /\ UNCHANGED <<kind, Ghosts>>

NextChll ==
    \/ \E k \in ChllKinds, l \in Labels, x \in Items : InsertSelf(k, l, x)
    \/ \E k \in ChllKinds : MergePeer(k)
    \/ \E k \in ChllKinds : MergeClone(k)
    \/ ChllClearSelf

\* SpreadSketch, SSS and SSSS leave clear unimplemented (todo!()).
NextSpread ==
    \/ \E l \in Labels, x \in Items : InsertSelf("spread", l, x)
    \/ MergePeer("spread")
    \/ MergeClone("spread")

NextSss ==
    \/ \E l \in Labels, x \in Items : InsertSelf("sss", l, x)
    \/ MergePeer("sss")
    \/ MergeClone("sss")

NextSsss ==
    \/ \E l \in Labels, x \in Items : InsertSelf("ssss", l, x)
    \/ MergePeer("ssss")
    \/ MergeClone("ssss")

Next ==
    \/ NextHll
    \/ NextChll
    \/ NextSpread
    \/ NextSss
    \/ NextSsss

\* Every sketch type.
Spec == Init /\ [][Next]_vars

\* One sketch type alone.
SpecHll == InitKind("hll") /\ [][NextHll]_vars
SpecSss == InitKind("sss") /\ [][NextSss]_vars
SpecSsss == InitKind("ssss") /\ [][NextSsss]_vars

(***************************************************************************)
(* One sketch and a sequence of inserts, remembering one of the pairs      *)
(* inserted.                                                               *)
(***************************************************************************)
\* self.insert(label, item)
InsertStep(label, item) ==
    /\ self' \in InsertOutcomes(kind, self, label, item)
    /\ kind = "sss" => \A l \in DOMAIN self'.counters : self'.counters[l].offset <= MaxOffset
    /\ last' = IF <<label, item>> \in marked THEN "insert_again"
               ELSE InsertBranch(kind, self, label, item)

\* An insert that leaves the remembered pair as it is.
InsertPlain ==
    /\ \E l \in LabelsFor(kind), x \in ItemsFor(kind) : InsertStep(l, x)
    /\ marked' = marked
    /\ kept' = (kept /\ \A p \in marked : Tracked(kind, self', p[1]))
    /\ UNCHANGED <<kind, curLabel, cursor>>

\* An insert whose pair is remembered.
InsertMarked ==
    /\ marked = {}
    /\ \E l \in LabelsFor(kind), x \in ItemsFor(kind) :
          /\ InsertStep(l, x)
          /\ marked' = {<<l, x>>}
          /\ kept' = Tracked(kind, self', l)
    /\ UNCHANGED <<kind, curLabel, cursor>>

NextInserts ==
    \/ InsertPlain
    \/ InsertMarked

SpecInserts == Init /\ [][NextInserts]_vars

(***************************************************************************)
(* A LabelSetCountHLL sketch, with the labels inserted into it, or into a  *)
(* sketch merged into it, since new or the last clear.                     *)
(***************************************************************************)
NextLabelSet ==
    \/ /\ \E l \in Labels, x \in Items :
             /\ self' = LabelSetInsert(self, l, x)
             /\ marked' = marked \cup {l}
       /\ last' = "insert"
       /\ UNCHANGED <<kind, kept, curLabel, cursor>>
    \/ /\ \E L \in SUBSET Labels, n \in 1 .. NumItems,
             pc \in PeerConfigs(kind, ConfigOf(kind, self)) :
             \E o \in FillLabels(kind, {NewSketch(kind, pc)}, L, n) :
                 LET m == LabelSetMerge(self, o)
                 IN  /\ self' = m.sk
                     /\ marked' = IF m.res = "Ok" THEN marked \cup L ELSE marked
                     /\ last' = IF m.res = "Ok" THEN "merge_ok" ELSE "merge_err"
       /\ UNCHANGED <<kind, kept, curLabel, cursor>>
    \/ /\ self' = LabelSetMerge(self, self).sk
       /\ last' = "clone_ok"
       /\ UNCHANGED <<kind, Ghosts>>
    \/ /\ self' = LabelSetClear(self)
       /\ marked' = {}
       /\ last' = "clear"
       /\ UNCHANGED <<kind, kept, curLabel, cursor>>

SpecLabelSet == InitKind("labelset") /\ [][NextLabelSet]_vars

(***************************************************************************)
(* The constructors of hll::Config and count_hll::Config.  A usize         *)
(* subtraction that overflows panics in a build with overflow checks       *)
(* (debug) and wraps in one without (release).                             *)
(***************************************************************************)
RECURSIVE BitAnd(_, _)
\* a & b
BitAnd(a, b) ==
    IF a = 0 \/ b = 0 THEN 0
    ELSE (a % 2) * (b % 2) + 2 * BitAnd(a \div 2, b \div 2)

\* Whether n & (n - 1) != 0, the subtraction wrapped.
NotPowerOfTwoTest(n) == BitAnd(n, (n - 1 + 2 ^ UsizeBits) % (2 ^ UsizeBits)) # 0

\* hll::Config::new(num_registers, Some(seeds)); alpha panics in the arm
\* 1 | 2 | 4 | 8.
HllConfigNew(build, num_registers, seeds) ==
    IF build = "debug" /\ num_registers < 1
    THEN [res |-> "Panic"]
    ELSE IF NotPowerOfTwoTest(num_registers)
    THEN [res |-> "Err", error |-> "NonPowerOfTwoNumRegisters"]
    ELSE IF num_registers \in {1, 2, 4, 8}
    THEN [res |-> "Panic"]
    ELSE [res |-> "Ok", config |-> HllConfig(num_registers, seeds)]

\* count_hll::Config::new(d, w, Some(seeds)).
ChllConfigNew(build, d, w, seeds) ==
    IF build = "debug" /\ d < 1
    THEN [res |-> "Panic"]
    ELSE IF NotPowerOfTwoTest(d)
    THEN [res |-> "Err", error |-> "NonPowerOfTwoDepth"]
    ELSE IF w = 0
    THEN [res |-> "Err", error |-> "ZeroWidth"]
    ELSE [res |-> "Ok",
          config |-> [ChllConfig(d, w, seeds) EXCEPT
                        !.depth_log2 = IF d = 0 THEN UsizeBits ELSE @]]

InitConfig ==
    /\ kind = "config"
    /\ self = [of |-> "none"]
    /\ last = "new"
    /\ NoHistory
    /\ NoDriver

\* Config::new of hll and of count_hll, in a debug or a release build.
NextConfig ==
    \/ /\ \E build \in {"debug", "release"}, n \in 0 .. MaxSize :
             self' = [of |-> "hll", build |-> build, sizes |-> <<n>>,
                      out |-> HllConfigNew(build, n, <<0, 1>>)]
       /\ last' = "config_new"
       /\ UNCHANGED <<kind, Ghosts>>
    \/ /\ \E build \in {"debug", "release"}, d \in 0 .. MaxSize, w \in 0 .. MaxSize :
             self' = [of |-> "count_hll", build |-> build, sizes |-> <<d, w>>,
                      out |-> ChllConfigNew(build, d, w, <<0, 1, 2>>)]
       /\ last' = "config_new"
       /\ UNCHANGED <<kind, Ghosts>>

SpecConfig == InitConfig /\ [][NextConfig]_vars

(***************************************************************************)
(* A sketch with the (label, item) pairs inserted into it or into a sketch *)
(* merged into it since new (HLL, whose items have no label, under label   *)
(* 0).                                                                     *)
(***************************************************************************)
NextPairs ==
    \/ /\ \E l \in LabelsFor(kind), x \in ItemsFor(kind) :
             /\ self' \in InsertOutcomes(kind, self, l, x)
             /\ marked' = marked \cup {<<l, x>>}
       /\ last' = "insert"
       /\ UNCHANGED <<kind, kept, curLabel, cursor>>
    \/ /\ \E L \in SUBSET LabelsFor(kind), n \in 1 .. Cardinality(ItemsFor(kind)),
             pc \in PeerConfigs(kind, ConfigOf(kind, self)) :
             \E o \in FillLabels(kind, {NewSketch(kind, pc)}, L, n) :
                 \E m \in MergeOutcomes(kind, self, o) :
                     /\ self' = m.sk
                     /\ marked' = IF m.res = "Ok"
                                  THEN marked \cup (L \X (0 .. (n - 1)))
                                  ELSE marked
                     /\ last' = IF m.res = "Ok" THEN "merge_ok" ELSE "merge_err"
       /\ UNCHANGED <<kind, kept, curLabel, cursor>>
    \/ /\ \E m \in MergeOutcomes(kind, self, self) : self' = m.sk
       /\ last' = "clone_ok"
       /\ UNCHANGED <<kind, Ghosts>>

\* The sketches start new: an HLL, a SpreadSketch, or a PointwiseSketch of
\* the usual config or of one Config::new returns for a depth of 1, 2 or 4
\* and a width of 1 or 3.
InitPairs ==
    \/ \E k \in {"hll", "pointwise", "spread"} : InitKind(k)
    \/ /\ kind = "pointwise"
       /\ \E d \in {1, 2, 4}, w \in {1, 3} :
             LET made == ChllConfigNew("release", d, w, <<0, 1, 2>>)
             IN  made.res = "Ok" /\ self = PointwiseNew(made.config)
       /\ last = "new"
       /\ NoHistory
       /\ NoDriver

SpecPairs == InitPairs /\ [][NextPairs]_vars

(***************************************************************************)
(* An SSSS sketch with one counter under the nested loops of               *)
(* ssss_counts_set_cardinality: for each label, items 0, 1, 2, ...         *)
(***************************************************************************)
StreamConfig == SsssConfig(1, BaseHll, 0)

InitStream ==
    /\ kind = "ssss"
    /\ self = SsssNew(StreamConfig)
    /\ last = "new"
    /\ NoHistory
    /\ NoDriver

\* The outer loop moves to another label.
StreamNextLabel ==
    /\ \E l \in Labels \ {curLabel} : curLabel' = l
    /\ cursor' = 0
    /\ UNCHANGED <<kind, self, last, marked, kept>>

\* The inner loop: sketch.insert(label, &i).
StreamInsert ==
    /\ curLabel \in Labels
    /\ cursor < StreamLen
    /\ self' \in SsssInsert(self, curLabel, cursor)
    /\ last' = InsertBranch("ssss", self, curLabel, cursor)
    /\ cursor' = cursor + 1
    /\ UNCHANGED <<kind, marked, kept, curLabel>>

NextStream ==
    \/ StreamNextLabel
    \/ StreamInsert

SpecStream == InitStream /\ [][NextStream]_vars

(***************************************************************************)
(* The loop of PointwiseSketch::argmax_cl.  The floating-point values (n,  *)
(* the derivatives, the shift) are left out: each pass either passes the   *)
(* convergence test shift.abs() / n < 1e-3 or fails it, and a test on a    *)
(* NaN fails.  self.steps counts the updates n += shift.                   *)
(***************************************************************************)
\* One pass of the loop: the break when iters > max_iters, or else an update
\* of n followed by the return when the test passes and by iters += 1 when
\* it fails.
NextArgmax ==
    /\ self.at = "loop"
    /\ \/ /\ self.iters > MaxIters
          /\ self' = [self EXCEPT !.at = "broke"]
          /\ last' = "break"
       \/ /\ self.iters <= MaxIters
          /\ \E converged \in BOOLEAN :
                self' = IF converged
                        THEN [self EXCEPT !.steps = @ + 1, !.at = "returned"]
                        ELSE [self EXCEPT !.steps = @ + 1, !.iters = @ + 1]
          /\ last' = "update"
    /\ UNCHANGED <<kind, Ghosts>>

\* let mut iters = 0, before the first pass.
InitArgmax ==
    /\ kind = "argmax_cl"
    /\ self = [iters |-> 0, steps |-> 0, at |-> "loop"]
    /\ last = "init"
    /\ NoHistory
    /\ NoDriver

SpecArgmax == InitArgmax /\ [][NextArgmax]_vars

(***************************************************************************)
(* The properties.                                                         *)
(***************************************************************************)
\* A sketch that has received something.
NonEmpty(k, s) == s # NewSketch(k, ConfigOf(k, s))

\* C1: for every sketch type, merge(other) returns Err(ConfigMismatch)
\* exactly when the two configs differ, and then leaves every part of self
\* as it was; when the configs are equal it returns Ok.
C1_MergeConfigMismatch ==
    \A o \in Peers[kind][ConfigOf(kind, self)] \cup {self} :
        \A m \in MergeOutcomes(kind, self, o) :
            IF ConfigOf(kind, self) = ConfigOf(kind, o)
            THEN m.res = "Ok"
            ELSE m.res = "ConfigMismatch" /\ m.sk = self

\* A merge was refused by a sketch that holds data, and there are
\* non-empty merge arguments of a differing and of the same config.
C1_Witness ==
    /\ last = "merge_err"
    /\ NonEmpty(kind, self)
    /\ \E o \in Peers[kind][ConfigOf(kind, self)] :
          NonEmpty(kind, o) /\ ConfigOf(kind, o) # ConfigOf(kind, self)
    /\ \E o \in Peers[kind][ConfigOf(kind, self)] :
          NonEmpty(kind, o) /\ ConfigOf(kind, o) = ConfigOf(kind, self)

\* C2: in SSS and SSSS, after any inserts and merges (successful or
\* failed) from new(config), at most max_num_counters labels are tracked.
C2_TrackedAtMostMax ==
    kind \in {"sss", "ssss"} =>
        Cardinality(DOMAIN self.counters) <= self.config.max_num_counters

\* A merge that had entries to trim left self full.
C2_Witness ==
    /\ kind \in {"sss", "ssss"}
    /\ last = "merge_trim"
    /\ Cardinality(DOMAIN self.counters) = self.config.max_num_counters

\* C3 (as stated): in SSSS, over a stream of inserts only, the threshold
\* after each insert is at least the threshold before it.
C3_ThresholdNonDecreasing ==
    [][kind = "ssss" => self'.threshold >= self.threshold]_vars

\* The cardinality of an entry's sketch, read from its registers, plus the
\* entry's offset (SSS).
OwnCardinality(k, s, l) ==
    IF k = "sss"
    THEN s.counters[l].offset + HllCardinality(s.counters[l].sketch.sketch)
    ELSE HllCardinality(s.counters[l].sketch)

\* C4: in SSS and SSSS, cardinality(label) is the label's own
\* (offset-adjusted) cardinality when the label is tracked, the minimum
\* (offset-adjusted) cardinality over the tracked entries when it is not,
\* and 0 when nothing is tracked.
C4_CardinalityTrackedElseFloor ==
    kind \in {"sss", "ssss"} =>
        \A l \in Labels :
            LET c == CardinalityOf(kind, self, l)
                tracked == DOMAIN self.counters
            IN  IF l \in tracked THEN c = OwnCardinality(kind, self, l)
                ELSE IF tracked = {} THEN c = 0
                ELSE /\ \A t \in tracked : c <= OwnCardinality(kind, self, t)
                     /\ \E t \in tracked : c = OwnCardinality(kind, self, t)

\* An SSS sketch after an eviction, with an untracked label and two
\* tracked entries of different offset-adjusted cardinalities.
C4_Witness ==
    /\ kind = "sss"
    /\ last = "insert_evict"
    /\ Labels \ DOMAIN self.counters # {}
    /\ \E t, u \in DOMAIN self.counters :
          /\ OwnCardinality(kind, self, t) < OwnCardinality(kind, self, u)
          /\ self.counters[t].offset > 0

\* C5: an SSS insert evicts only when its label is untracked and the map
\* is full; it then evicts exactly one entry, whose offset-adjusted
\* cardinality before the insert is at most that of every entry that stays.
C5_EvictsOneMinimum ==
    [][\A l \in Labels, x \in Items :
          InsertSelf("sss", l, x) =>
              LET evicted == DOMAIN self.counters \ DOMAIN self'.counters
                  mustEvict == l \notin DOMAIN self.counters
                               /\ Cardinality(DOMAIN self.counters)
                                      = self.config.max_num_counters
              IN  /\ Cardinality(evicted) = IF mustEvict THEN 1 ELSE 0
                  /\ \A e \in evicted, t \in DOMAIN self.counters \ evicted :
                        OffsetCardinality(self.counters[e])
                            <= OffsetCardinality(self.counters[t])]_vars

\* An eviction has just happened from a map whose entries differed.
C5_Witness ==
    /\ kind = "sss"
    /\ last = "insert_evict"
    /\ \E t, u \in DOMAIN self.counters :
          OffsetCardinality(self.counters[t]) < OffsetCardinality(self.counters[u])

\* Whether a cardinality has not grown (a Count-HLL estimate is a function
\* of the registers read: it has not grown when they are the same).
NotIncreased(k, before, after) ==
    IF k \in ChllKinds THEN after = before
    ELSE IF k = "hll" THEN after = before
    ELSE after <= before

\* C6 (as stated): for every sketch and sequence of inserts, inserting a
\* pair (l, x) that was inserted earlier does not increase cardinality(l)
\* (for HLL, leaves cardinality() unchanged).
C6_ReinsertNoIncrease ==
    [][\A p \in marked :
          (InsertStep(p[1], p[2]) /\ marked' = marked) =>
              NotIncreased(kind, CardinalityOf(kind, self, p[1]),
                           CardinalityOf(kind, self', p[1]))]_vars

\* C6 (amended): inserting a pair (l, x) again does not increase
\* cardinality(l) when l has been tracked ever since the earlier insert
\* (HLL, Count-HLL and SpreadSketch hold no per-label entry to lose).
C6_ReinsertNoIncreaseWhileTracked ==
    [][\A p \in marked :
          (kept /\ InsertStep(p[1], p[2]) /\ marked' = marked) =>
              NotIncreased(kind, CardinalityOf(kind, self, p[1]),
                           CardinalityOf(kind, self', p[1]))]_vars

\* A pair was inserted again into a full SSS sketch whose label stayed
\* tracked while another label was evicted.
C6_Witness ==
    /\ kind = "sss"
    /\ last = "insert_again"
    /\ kept
    /\ Cardinality(DOMAIN self.counters) = self.config.max_num_counters
    /\ \E l \in DOMAIN self.counters : self.counters[l].offset > 0

\* C7: in HLL, after every insert, successful merge and clear,
\* num_zero_registers is the number of registers that are 0 and z_inv is
\* the sum over the registers of 2^(-register).
C7_CachesCoherent ==
    kind = "hll" =>
        /\ self.num_zero_registers
               = Cardinality({r \in DOMAIN self.registers : self.registers[r] = 0})
        /\ self.z_inv = SumOver([r \in DOMAIN self.registers |->
                                    ZOne \div (2 ^ self.registers[r])],
                                DOMAIN self.registers)

\* A successful merge has just left self with registers set.
C7_Witness ==
    /\ kind = "hll"
    /\ last = "merge_ok"
    /\ self.num_zero_registers < self.config.num_registers - 1
    /\ \E r \in DOMAIN self.registers : self.registers[r] > 1

\* The label sets top(k) may return (a Count-HLL top is kept with its
\* entries).
TopLabelSets(k, s, n) ==
    IF k \in {"sss", "ssss"}
    THEN {{t[i][1] : i \in 1 .. Len(t)} : t \in TopOutcomes(k, s, n)}
    ELSE IF k = "spread"
    THEN {{t[i][1] : i \in 1 .. Len(t)} : t \in TopOutcomes(k, s, n)}
    ELSE TopOutcomes(k, s, n)

\* C8: for each sketch type, merging a clone of a sketch into the sketch
\* succeeds and leaves cardinality(label), for every label, and the set of
\* labels top(k) returns, for every k, as they were.
C8_MergeCloneIdempotent ==
    [][MergeClone(kind) =>
          /\ last' = "clone_ok"
          /\ \A l \in LabelsFor(kind) :
                CardinalityOf(kind, self', l) = CardinalityOf(kind, self, l)
          /\ \A n \in 0 .. (NumLabels + 1) :
                TopLabelSets(kind, self', n) = TopLabelSets(kind, self, n)]_vars

\* A full SSS sketch with a banked offset has just merged its clone.
C8_Witness ==
    /\ kind = "sss"
    /\ last = "clone_ok"
    /\ Cardinality(DOMAIN self.counters) = self.config.max_num_counters
    /\ \E l \in DOMAIN self.counters : self.counters[l].offset > 0

\* C9: in SSS with Offset, the label admitted by evicting entry E gets
\* offset = E.offset + E's sketch cardinality and an emptied sketch, into
\* which the item goes; an insert under a tracked label leaves the offset
\* and adds the item to the sketch; no insert touches another entry that
\* stays.  So cardinality(L) is E's offset-adjusted cardinality at the
\* eviction plus the cardinality of a sketch of L's items since.
C9_OffsetAdmission ==
    [][\A l \in Labels, x \in Items :
          (InsertSelf("sss", l, x) /\ self.config.reset_strategy = "Offset") =>
              LET evicted == DOMAIN self.counters \ DOMAIN self'.counters
                  sub == self.config.cardinality_sketch_config
                  mine == self'.counters[l]
              IN  /\ l \in DOMAIN self'.counters
                  /\ \A t \in DOMAIN self'.counters \ {l} :
                        t \in DOMAIN self.counters /\ self'.counters[t] = self.counters[t]
                  /\ \A e \in evicted :
                        /\ mine.offset = self.counters[e].offset
                               + HllCardinality(self.counters[e].sketch.sketch)
                        /\ mine.sketch.sketch = HllInsert(HllNew(sub), x)
                  /\ l \in DOMAIN self.counters =>
                        /\ mine.offset = self.counters[l].offset
                        /\ mine.sketch.sketch = HllInsert(self.counters[l].sketch.sketch, x)
                  /\ SssCardinality(self', l)
                         = mine.offset + HllCardinality(mine.sketch.sketch)]_vars

\* An Offset eviction has just banked a cardinality of more than one item.
C9_Witness ==
    /\ kind = "sss"
    /\ self.config.reset_strategy = "Offset"
    /\ last = "insert_evict"
    /\ \E l \in DOMAIN self.counters :
          /\ self.counters[l].offset > 1
          /\ self.counters[l].sketch.cardinality = 1

\* C10: in SSS with Recycle, the label admitted by evicting entry E gets
\* E's sketch as it was, into which the item goes, and offset 0, so its
\* cardinality is that of E's items and its own together; every counter's
\* offset is 0 in every state inserts and merges reach.
C10_RecycleAdmission ==
    [][kind = "sss" =>
          /\ self'.config.reset_strategy = "Recycle" =>
                \A t \in DOMAIN self'.counters : self'.counters[t].offset = 0
          /\ \A l \in Labels, x \in Items :
                (InsertSelf("sss", l, x) /\ self.config.reset_strategy = "Recycle") =>
                    \A e \in DOMAIN self.counters \ DOMAIN self'.counters :
                        /\ self'.counters[l].sketch.sketch
                               = HllInsert(self.counters[e].sketch.sketch, x)
                        /\ SssCardinality(self', l)
                               = HllCardinality(HllInsert(self.counters[e].sketch.sketch, x))
                        /\ \A t \in DOMAIN self'.counters \ {l} :
                              self'.counters[t] = self.counters[t]]_vars

\* A Recycle eviction has just handed over a sketch that already held an
\* item other than the one inserted.
C10_Witness ==
    /\ kind = "sss"
    /\ self.config.reset_strategy = "Recycle"
    /\ last = "insert_evict"
    /\ \E l \in DOMAIN self.counters :
          /\ self.counters[l].offset = 0
          /\ self.counters[l].sketch.cardinality > 1

\* C11: in SSSS, insert(label, item) with label untracked, the map full and
\* the item's estimate at most threshold changes nothing: tracked labels,
\* every counter's sketch and cached cardinality, and threshold stay.
C11_GateDropChangesNothing ==
    [][\A l \in Labels, x \in Items :
          (/\ InsertSelf("ssss", l, x)
           /\ l \notin DOMAIN self.counters
           /\ Cardinality(DOMAIN self.counters) >= self.config.max_num_counters
           /\ CardinalityEstimate(self.config, x) <= self.threshold)
          => /\ DOMAIN self'.counters = DOMAIN self.counters
             /\ \A t \in DOMAIN self.counters : self'.counters[t] = self.counters[t]
             /\ self'.threshold = self.threshold
             /\ self' = self]_vars

\* The gate has just dropped an item of a full SSSS sketch whose smallest
\* counter has grown past the threshold.
C11_Witness ==
    /\ kind = "ssss"
    /\ last = "insert_gate_drop"
    /\ Cardinality(DOMAIN self.counters) = self.config.max_num_counters
    /\ \A t \in DOMAIN self.counters :
          CachedCardinality(self.counters[t]) > self.threshold

\* The sketches a merge of self may be given: those built apart from it,
\* and its clone.
MergeArguments == Peers[kind][ConfigOf(kind, self)] \cup {self}

\* C12: in SSSS, after a successful merge(other), self.threshold is the
\* minimum of self's threshold before the merge and other's threshold; a
\* merge never raises self's threshold.
C12_MergeThresholdIsMin ==
    kind = "ssss" =>
        \A o \in MergeArguments :
            \A m \in MergeOutcomes(kind, self, o) :
                /\ m.res = "Ok" => m.sk.threshold = Min(self.threshold, o.threshold)
                /\ m.sk.threshold <= self.threshold

\* After a successful merge self's threshold is below the cardinality of
\* each of its counters, and positive: each of the two sketches had
\* sampled before.
C12_Witness ==
    /\ kind = "ssss"
    /\ last \in {"merge_ok", "merge_trim"}
    /\ self.threshold > 0
    /\ DOMAIN self.counters # {}
    /\ \A t \in DOMAIN self.counters :
          CachedCardinality(self.counters[t]) > self.threshold

\* The counters of a merge before its trim.
MergedCountersOf(k, s, o) ==
    IF k = "sss" THEN SssMergedCounters(s, o) ELSE SsssMergedCounters(s, o)

\* C13: in SSS and SSSS, after a successful merge the tracked labels are a
\* subset of the union of both sketches' labels, of size
\* min(max_num_counters, size of the union), and every label the trim drops
\* has a merged (offset-adjusted) cardinality at most that of every label
\* kept.
C13_MergeKeepsLargest ==
    kind \in {"sss", "ssss"} =>
        \A o \in MergeArguments :
            \A m \in MergeOutcomes(kind, self, o) :
                m.res = "Ok" =>
                    LET all == DOMAIN self.counters \cup DOMAIN o.counters
                        keptLabels == DOMAIN m.sk.counters
                        merged == [counters |-> MergedCountersOf(kind, self, o)]
                    IN  /\ keptLabels \subseteq all
                        /\ Cardinality(keptLabels)
                               = Min(self.config.max_num_counters, Cardinality(all))
                        /\ \A d \in all \ keptLabels, t \in keptLabels :
                               /\ OwnCardinality(kind, merged, d)
                                      <= OwnCardinality(kind, merged, t)
                               /\ OwnCardinality(kind, m.sk, t)
                                      = OwnCardinality(kind, merged, t)

\* A merge has just trimmed self, which holds entries of different
\* cardinalities and can be merged with a sketch that makes it trim again.
C13_Witness ==
    /\ kind \in {"sss", "ssss"}
    /\ last = "merge_trim"
    /\ \E t, u \in DOMAIN self.counters :
          OwnCardinality(kind, self, t) < OwnCardinality(kind, self, u)
    /\ \E o \in Peers[kind][ConfigOf(kind, self)] :
          /\ ConfigOf(kind, o) = ConfigOf(kind, self)
          /\ MergeTrims(kind, self, o)

\* n is a power of two.
IsPowerOfTwo(n) == \E e \in 0 .. UsizeBits : n = 2 ^ e

\* C14 (as stated): the constructors of configs report invalid sizes as an
\* error value and never abort: hll::Config::new returns Ok only for a
\* num_registers that is a power of two and at least 16 and a ConfigError
\* otherwise (0, 1, 2, 4, 8 included); count_hll::Config::new returns a
\* ConfigError for a depth that is 0 or not a power of two and for width 0.
C14_ConfigNewReportsErrors ==
    last = "config_new" =>
        /\ self.out.res \in {"Ok", "Err"}
        /\ self.of = "hll" =>
              LET n == self.sizes[1]
              IN  IF IsPowerOfTwo(n) /\ n >= 16
                  THEN self.out.res \in {"Ok", "Err"}
                  ELSE self.out.res = "Err"
        /\ self.of = "count_hll" =>
              LET d == self.sizes[1]
                  w == self.sizes[2]
              IN  (d = 0 \/ ~IsPowerOfTwo(d) \/ w = 0) => self.out.res = "Err"

\* C15: in SSS and SSSS, top(k) returns exactly min(k, number of tracked
\* labels) entries, each a distinct tracked label with its current
\* (offset-adjusted) cardinality, in non-increasing order of cardinality,
\* and no tracked label left out has a cardinality strictly greater than
\* one returned.
C15_TopIsLargestDescending ==
    kind \in {"sss", "ssss"} =>
        \A k \in 0 .. NumLabels :
            \A t \in TopOutcomes(kind, self, k) :
                LET returned == {t[i][1] : i \in 1 .. Len(t)}
                IN  /\ Len(t) = Min(k, Cardinality(DOMAIN self.counters))
                    /\ \A i \in 1 .. Len(t) :
                          /\ t[i][1] \in DOMAIN self.counters
                          /\ t[i][2] = OwnCardinality(kind, self, t[i][1])
                    /\ \A i, j \in 1 .. Len(t) :
                          /\ i # j => t[i][1] # t[j][1]
                          /\ i < j => t[i][2] >= t[j][2]
                    /\ \A l \in DOMAIN self.counters \ returned :
                          \A i \in 1 .. Len(t) :
                              OwnCardinality(kind, self, l) <= t[i][2]

\* top(1) of a sketch with two tracked labels returns the larger and
\* leaves out the smaller.
C15_Witness ==
    /\ kind \in {"sss", "ssss"}
    /\ last # "new"
    /\ Cardinality(DOMAIN self.counters) = 2
    /\ \E t \in TopOutcomes(kind, self, 1) :
          /\ Len(t) = 1
          /\ \E l \in DOMAIN self.counters :
                OwnCardinality(kind, self, l) < t[1][2]

\* The u64 values the estimates of a top may evaluate to: equal estimates
\* to equal values.
Estimates(t) == [{t.entries[i][2] : i \in 1 .. Len(t.entries)} -> 0 .. NumLabels]

\* C16: in LabelSetCountHLL, after any inserts and successful merges since
\* construction or the last clear, top(k) returns exactly min(k, n)
\* entries, n the number of distinct labels inserted into self or into a
\* merged-in sketch; the labels are pairwise distinct and the entries in
\* non-increasing order of cardinality.
C16_LabelSetTopCounts ==
    \A k \in 0 .. (NumLabels + 1) :
        \A t \in LabelSetTop(self, k) :
            \A est \in Estimates(t) :
                LET r == SortedTop(t, est)
                IN  /\ Len(r) = Min(k, Cardinality(marked))
                    /\ \A i \in 1 .. Len(r) :
                          /\ r[i][1] \in marked
                          /\ r[i][2] = est[LabelSetCardinality(self, r[i][1])]
                    /\ \A i, j \in 1 .. Len(r) :
                          /\ i # j => r[i][1] # r[j][1]
                          /\ i < j => r[i][2] >= r[j][2]

\* After a merge, two labels have been inserted and top(3) returns both,
\* the larger estimate first.
C16_Witness ==
    /\ kind = "labelset"
    /\ last = "merge_ok"
    /\ Cardinality(marked) = 2
    /\ \E t \in LabelSetTop(self, 3) :
          \E est \in Estimates(t) :
              /\ Len(SortedTop(t, est)) = 2
              /\ SortedTop(t, est)[1][2] > SortedTop(t, est)[2][2]

\* C17: in SSSS, insert(label, item) with label untracked, the map full and
\* the item's estimate above threshold sets threshold to the minimum
\* tracked cardinality m; if the estimate is above m, a minimum entry is
\* removed and its counter, contents kept, becomes the new label's with the
\* item inserted, every other entry staying; otherwise the counters and
\* the tracked labels stay.
C17_SampledAdmission ==
    [][\A l \in Labels, x \in Items :
          (/\ InsertSelf("ssss", l, x)
           /\ l \notin DOMAIN self.counters
           /\ Cardinality(DOMAIN self.counters) >= self.config.max_num_counters
           /\ CardinalityEstimate(self.config, x) > self.threshold)
          => LET cheap == CardinalityEstimate(self.config, x)
                 tracked == DOMAIN self.counters
                 m == CHOOSE c \in {OwnCardinality(kind, self, t) : t \in tracked} :
                          \A t \in tracked : c <= OwnCardinality(kind, self, t)
             IN  /\ self'.threshold = m
                 /\ cheap > m =>
                       \E e \in tracked :
                           /\ OwnCardinality(kind, self, e) = m
                           /\ DOMAIN self'.counters = (tracked \ {e}) \cup {l}
                           /\ Cardinality(DOMAIN self'.counters)
                                  = self.config.max_num_counters
                           /\ self'.counters[l].sketch
                                  = HllInsert(self.counters[e].sketch, x)
                           /\ \A t \in tracked \ {e} :
                                  self'.counters[t] = self.counters[t]
                 /\ cheap <= m => self'.counters = self.counters]_vars

\* An eviction has just handed the new label a counter that holds more
\* than the item inserted.
C17_Witness ==
    /\ kind = "ssss"
    /\ last = "insert_evict"
    /\ \E l \in DOMAIN self.counters :
          /\ self.threshold > 0
          /\ Cardinality({r \in DOMAIN self.counters[l].sketch.registers :
                              self.counters[l].sketch.registers[r] > 0}) > 1

\* C18 (as stated): in LabelArrayCountHLL, an insert that maps to a cell
\* with a level equal to or above the cell's stored level makes the new
\* label the owner (ties go to the new label).
C18_TiesGoToNewLabel ==
    [][kind = "labelarray" =>
          \A l \in Labels, x \in Items :
              InsertStep(l, x) =>
                  LET index == PointwiseGetIndex(self.sketch.config, l, x)
                      z == PointwiseGetZ(self.sketch.config, l, x)
                  IN  z >= self.labels[index][2] => self'.labels[index] = <<{l}, z>>]_vars

\* C18 (amended): in LabelArrayCountHLL, an insert that maps to a cell
\* with a level above the cell's stored level makes the new label the
\* owner and stores the level; with a level equal to or below it, the cell
\* keeps its owner and level (ties go to the stored owner); every other
\* cell stays.  The owner of a cell is so the first label to have produced
\* the cell's highest level.
C18_TiesKeepStoredOwner ==
    [][kind = "labelarray" =>
          \A l \in Labels, x \in Items :
              InsertStep(l, x) =>
                  LET index == PointwiseGetIndex(self.sketch.config, l, x)
                      z == PointwiseGetZ(self.sketch.config, l, x)
                  IN  /\ z > self.labels[index][2] => self'.labels[index] = <<{l}, z>>
                      /\ z <= self.labels[index][2] =>
                            self'.labels[index] = self.labels[index]
                      /\ \A i \in DOMAIN self.labels \ {index} :
                            self'.labels[i] = self.labels[i]]_vars

\* The remembered pair was inserted, and the cell it maps to holds its
\* level under another owner: a tie was met.
C18_Witness ==
    /\ kind = "labelarray"
    /\ \E p \in marked :
          LET index == PointwiseGetIndex(self.sketch.config, p[1], p[2])
              z == PointwiseGetZ(self.sketch.config, p[1], p[2])
          IN  /\ self.labels[index][2] = z
              /\ self.labels[index][1] # {p[1]}

\* C19: in SpreadSketch, insert(label, item) with level l touches exactly
\* one bucket per row, the one the row hash of the label selects: the item
\* is inserted into its cardinality sketch, and owner and level become
\* (label, l) when l >= the stored level and stay otherwise; every other
\* bucket stays, and no bucket's level decreases.
C19_InsertUpdatesOneBucketPerRow ==
    [][\A l \in Labels, x \in Items :
          InsertSelf("spread", l, x) =>
              LET cfg == self.config
                  rows == 0 .. (cfg.num_rows - 1)
                  lev == LeadingZeros(GlobalHash(cfg, l, x))
                  touched == {SpreadBucketOf(cfg, r, l) : r \in rows}
              IN  /\ \A r \in rows :
                        Cardinality({i \in touched : i \div cfg.num_cols = r}) = 1
                  /\ \A i \in touched :
                        /\ self'.buckets[i].sketch = HllInsert(self.buckets[i].sketch, x)
                        /\ IF lev >= self.buckets[i].level
                           THEN /\ self'.buckets[i].label = {l}
                                /\ self'.buckets[i].level = lev
                           ELSE /\ self'.buckets[i].label = self.buckets[i].label
                                /\ self'.buckets[i].level = self.buckets[i].level
                  /\ \A i \in DOMAIN self.buckets \ touched :
                        self'.buckets[i] = self.buckets[i]
                  /\ \A i \in DOMAIN self.buckets :
                        self'.buckets[i].level >= self.buckets[i].level]_vars

\* An insert has just left a bucket whose sketch holds two items and
\* another bucket that holds none.
C19_Witness ==
    /\ kind = "spread"
    /\ last = "insert"
    /\ \E i \in DOMAIN self.buckets :
          /\ self.buckets[i].label # {}
          /\ self.buckets[i].sketch.num_zero_registers
                 <= self.buckets[i].sketch.config.num_registers - 2
    /\ \E i \in DOMAIN self.buckets : self.buckets[i] = BucketNew(BaseHll)

\* C20: in SpreadSketch, a successful merge sets each bucket's level to the
\* maximum of the two buckets' levels and its owner to the owner of the
\* bucket that had the strictly greater level, keeping self's owner on
\* equal levels, and merges the two cardinality sketches of the bucket.
C20_MergeKeepsOwnerOnTies ==
    kind = "spread" =>
        \A o \in MergeArguments :
            \A m \in MergeOutcomes(kind, self, o) :
                m.res = "Ok" =>
                    \A i \in DOMAIN self.buckets :
                        LET b == self.buckets[i]
                            ob == o.buckets[i]
                            after == m.sk.buckets[i]
                        IN  /\ after.level = Max(b.level, ob.level)
                            /\ after.label = IF ob.level > b.level THEN ob.label
                                              ELSE b.label
                            /\ after.sketch.registers
                                   = [r \in DOMAIN b.sketch.registers |->
                                         Max(b.sketch.registers[r], ob.sketch.registers[r])]
                            /\ after.sketch.num_zero_registers
                                   = HllZerosOf(after.sketch.registers)
                            /\ after.sketch.z_inv = HllZInvOf(after.sketch.registers)

\* A merge has just succeeded, and self can be merged with a sketch that
\* holds, in some bucket, the same level under another owner, and in some
\* bucket a greater level.
C20_Witness ==
    /\ kind = "spread"
    /\ last = "merge_ok"
    /\ \E o \in Peers[kind][ConfigOf(kind, self)] :
          /\ ConfigOf(kind, o) = ConfigOf(kind, self)
          /\ \E i \in DOMAIN self.buckets :
                /\ o.buckets[i].level = self.buckets[i].level
                /\ o.buckets[i].label # self.buckets[i].label
                /\ self.buckets[i].label # {}
          /\ \E i \in DOMAIN self.buckets :
                /\ o.buckets[i].level > self.buckets[i].level
                /\ self.buckets[i].label # {}

\* The items an HLL holds: those whose insert leaves it as it is.
ItemsIn(h) == {x \in Items : HllInsert(h, x) = h}

\* The HLL of every bucket reports the number of distinct items it holds.
BucketsExact == \A i \in DOMAIN self.buckets :
                    BucketCount(self.buckets[i]) = Cardinality(ItemsIn(self.buckets[i].sketch))

\* C21: in SpreadSketch with per-bucket sketches that report the number of
\* distinct items inserted, after any inserts and successful merges
\* cardinality(label) is the minimum over the rows of the label's bucket
\* cardinality, and at least the number of distinct items inserted under
\* the label in self or in a merged-in sketch.
C21_CardinalityNeverUnderestimates ==
    (kind = "spread" /\ BucketsExact) =>
        \A l \in Labels :
            LET rows == 0 .. (self.config.num_rows - 1)
                counts == {BucketCount(self.buckets[BucketIndex(self.config, r,
                                                       RowHash(self.config, r, l))])
                           : r \in rows}
                c == SpreadCardinality(self, l)
            IN  /\ c \in counts
                /\ \A c2 \in counts : c <= c2
                /\ c >= Cardinality({p \in marked : p[1] = l})

\* After a merge a label's cardinality is above the number of items
\* inserted under it: it shares each of its buckets with another label.
C21_Witness ==
    /\ kind = "spread"
    /\ last = "merge_ok"
    /\ BucketsExact
    /\ \E l \in Labels :
          /\ Cardinality({p \in marked : p[1] = l}) = 1
          /\ SpreadCardinality(self, l) = 2
    /\ \E l \in Labels :
          SpreadCardinality(self, l) = Cardinality({p \in marked : p[1] = l})

\* Cardinalities a bucket sketch may report, around the values where the
\* cast to i32 changes sign or drops bits.
ReportedCardinalities ==
    {0, 1, 2 ^ (I32Bits - 1) - 1, 2 ^ (I32Bits - 1), 2 ^ (I32Bits - 1) + 1,
     2 ^ I32Bits, 2 ^ I32Bits + 1, 2 ^ (2 * I32Bits) - 1}

\* C22: SpreadSketch top(k) returns at most k distinct owner labels, each
\* with its cardinality, in non-increasing order of cardinality, whatever
\* u64 cardinalities the buckets report and in either build: the sort key
\* keeps the order and does not overflow.
C22_TopSortedOverWholeRange ==
    kind = "spread" =>
        LET owners == SpreadOwners(self.buckets, 0, {})
        IN  \A build \in {"debug", "release"}, k \in 0 .. NumLabels :
                \A count \in [{owners[i] : i \in 1 .. Len(owners)} -> ReportedCardinalities] :
                    LET sorted == SpreadSorted(build, [i \in 1 .. Len(owners) |->
                                                  <<owners[i], count[owners[i]]>>])
                        top == Take(sorted.top, k)
                    IN  /\ sorted.res = "Ok"
                        /\ Len(top) <= k
                        /\ \A i, j \in 1 .. Len(top) :
                              /\ i # j => top[i][1] # top[j][1]
                              /\ i < j => top[i][2] >= top[j][2]
                        /\ \A i \in 1 .. Len(top) : top[i][2] = count[top[i][1]]

\* C23: the Newton-Raphson loop of argmax_cl ends, by the return at the
\* first pass whose convergence test holds or by the break, and makes no
\* more than 100 updates of n whatever the derivatives are.
C23_AtMostMaxItersUpdates == kind = "argmax_cl" => self.steps <= MaxIters

RECURSIVE FedPairs(_, _, _)
\* The sketch s after one insert of each (label, item) pair of P.
FedPairs(k, s, P) ==
    IF P = {} THEN s
    ELSE LET p == CHOOSE q \in P : TRUE
         IN  FedPairs(k, CHOOSE t \in InsertOutcomes(k, s, p[1], p[2]) : TRUE, P \ {p})

\* C24: for HLL and for the Count-HLL register array, after any inserts, in
\* any order and with any repetition, and any successful merges, the
\* registers (and for HLL num_zero_registers) are those of a new sketch of
\* the same config fed once each pair inserted into self or into a
\* merged-in sketch.
C24_RegistersDependOnPairSet ==
    kind \in {"hll", "pointwise"} =>
        LET single == FedPairs(kind, NewSketch(kind, ConfigOf(kind, self)), marked)
        IN  /\ self.registers = single.registers
            /\ kind = "hll" => self.num_zero_registers = single.num_zero_registers

\* A merge has brought in pairs, and two of the pairs self stands for fall
\* into the same register.
C24_Witness ==
    /\ kind = "pointwise"
    /\ last = "merge_ok"
    /\ Cardinality(marked) >= 4
    /\ \E p, q \in marked :
          /\ p # q
          /\ PointwiseGetIndex(self.config, p[1], p[2]) = PointwiseGetIndex(self.config, q[1], q[2])
          /\ PointwiseGetZ(self.config, p[1], p[2]) # PointwiseGetZ(self.config, q[1], q[2])

\* C25: in SSSS, in every state reached by inserts and successful merges,
\* threshold is 0 while the map holds fewer than max_num_counters labels and
\* at most the minimum cardinality over the tracked labels when the map is
\* full; so an insert of an untracked label into a full map evicts the
\* minimum exactly when the item's estimate exceeds the minimum
\* cardinality.
C25_ThresholdBelowMinimum ==
    kind = "ssss" =>
        LET full == Cardinality(DOMAIN self.counters) >= self.config.max_num_counters
        IN  /\ ~full => self.threshold = 0
            /\ full => \A l \in DOMAIN self.counters :
                          self.threshold <= CachedCardinality(self.counters[l])
            /\ full => \A label \in Labels \ DOMAIN self.counters, item \in Items :
                          \A t \in SsssInsert(self, label, item) :
                              label \in DOMAIN t.counters
                                  <=> \E l \in DOMAIN self.counters :
                                         CardinalityEstimate(self.config, item)
                                             > CachedCardinality(self.counters[l])

\* A full map after a merge, with a threshold above 0 and below the minimum
\* cardinality, and an item whose estimate lies between the two: the gate
\* lets it through and the comparison with the minimum drops it.
C25_Witness ==
    /\ kind = "ssss"
    /\ last = "merge_ok"
    /\ Cardinality(DOMAIN self.counters) = self.config.max_num_counters
    /\ self.threshold > 0
    /\ \A l \in DOMAIN self.counters : self.threshold < CachedCardinality(self.counters[l])
    /\ \E item \in Items :
          /\ CardinalityEstimate(self.config, item) > self.threshold
          /\ \A l \in DOMAIN self.counters :
                CardinalityEstimate(self.config, item) <= CachedCardinality(self.counters[l])

\* C26: in SpreadSketch, in every state reached by inserts and successful
\* merges, a bucket whose sketch has received an item, directly or through
\* a merge, has an owner, and the owner is a label of which a pair was
\* inserted into this bucket with the level the bucket stores.
C26_PopulatedBucketHasOwner ==
    kind = "spread" =>
        \A i \in DOMAIN self.buckets :
            LET b == self.buckets[i]
            IN  b.sketch # HllNew(self.config.cardinality_sketch_config) =>
                    /\ b.label # {}
                    /\ \E p \in marked :
                          /\ p[1] \in b.label
                          /\ \E r \in 0 .. (self.config.num_rows - 1) :
                                SpreadBucketOf(self.config, r, p[1]) = i
                          /\ LeadingZeros(GlobalHash(self.config, p[1], p[2])) = b.level

\* C27: in SSS with either reset strategy, after a successful merge(other)
\* every label tracked afterwards has an offset-adjusted cardinality in
\* self at least the one it had in self before the merge and at least the
\* one it has in other.
C27_MergeNeverLowersCardinality ==
    kind = "sss" =>
        \A o \in MergeArguments :
            \A m \in MergeOutcomes(kind, self, o) :
                m.res = "Ok" =>
                    \A l \in DOMAIN m.sk.counters :
                        /\ l \in DOMAIN self.counters =>
                              OffsetCardinality(m.sk.counters[l])
                                  >= OffsetCardinality(self.counters[l])
                        /\ l \in DOMAIN o.counters =>
                              OffsetCardinality(m.sk.counters[l])
                                  >= OffsetCardinality(o.counters[l])

\* C28: in LabelArrayCountHLL, in every state reached by inserts,
\* successful merges and clears, the level of each label cell is the value
\* of the register at the same index, and a cell has no owner exactly when
\* its level is 0.
C28_CellLevelIsRegister ==
    kind = "labelarray" =>
        /\ DOMAIN self.labels = DOMAIN self.sketch.registers
        /\ \A i \in DOMAIN self.labels :
              /\ self.labels[i][2] = self.sketch.registers[i]
              /\ self.labels[i][1] = {} <=> self.labels[i][2] = 0

\* After a merge the cells hold two different levels above 0 and an empty
\* cell remains.
C28_Witness ==
    /\ kind = "labelarray"
    /\ last = "merge_ok"
    /\ \E i, j, e \in DOMAIN self.labels :
          /\ self.labels[i][2] > self.labels[j][2]
          /\ self.labels[j][2] > 0
          /\ self.labels[i][1] # self.labels[j][1]
          /\ self.labels[e] = <<{}, 0>>

\* C29: in SSS with either reset strategy, over a stream of inserts alone,
\* the inserted label is tracked when insert returns, the number of tracked
\* labels does not decrease, and once the map is full the minimum
\* offset-adjusted cardinality over the tracked labels, which cardinality
\* returns for an untracked label, does not decrease.
C29_InsertsOnlyGrow ==
    [][kind = "sss" =>
          \A l \in Labels, x \in Items :
              InsertStep(l, x) =>
                  /\ l \in DOMAIN self'.counters
                  /\ Cardinality(DOMAIN self'.counters) >= Cardinality(DOMAIN self.counters)
                  /\ SssFull(self) =>
                        /\ SssFull(self')
                        /\ \A u \in Labels \ DOMAIN self.counters,
                              v \in Labels \ DOMAIN self'.counters :
                                  SssCardinality(self', v) >= SssCardinality(self, u)
                        /\ \A t \in DOMAIN self'.counters :
                              \E e \in DOMAIN self.counters :
                                  OffsetCardinality(self'.counters[t])
                                      >= OffsetCardinality(self.counters[e])]_vars

\* Evictions have raised the minimum: the map is full and every tracked
\* label has an offset-adjusted cardinality of 3 or more.
C29_Witness ==
    /\ kind = "sss"
    /\ last = "insert_evict"
    /\ SssFull(self)
    /\ \A t \in DOMAIN self.counters : OffsetCardinality(self.counters[t]) >= 3

\* C30: for every Count-HLL config Config::new returns, width 1 included,
\* and every sketch state, cardinality(label) returns a value and does not
\* abort; signal(label) reads depth registers, one per row, and
\* background(label) reads the other depth * (width - 1) registers, every
\* index lying inside the array of depth * width registers.
C30_CardinalityNeverAborts ==
    kind = "pointwise" =>
        \A l \in Labels :
            LET config == self.config
                rows == 0 .. (config.depth - 1)
                signalAt == {PointwiseRegisterIndex(config, r, PointwiseColumn(config, r, l))
                             : r \in rows}
                backgroundAt == {PointwiseRegisterIndex(config, r, b)
                                 : r \in rows, b \in 0 .. (config.width - 1)} \ signalAt
                background == PointwiseBackground(self, l)
            IN  /\ "panic" \notin DOMAIN PointwiseCardinality(self, l)
                /\ DOMAIN self.registers = 0 .. (config.depth * config.width - 1)
                /\ signalAt \cup backgroundAt = DOMAIN self.registers
                /\ Cardinality(signalAt) = config.depth
                /\ Len(PointwiseSignal(self, l)) = config.depth
                /\ Len(background) = config.depth * (config.width - 1)
                /\ \A v \in 0 .. (HashBits + 1) :
                      Cardinality({j \in 1 .. Len(background) : background[j] = v})
                          = Cardinality({i \in backgroundAt : self.registers[i] = v})

====
